---- MODULE Spec2Model ----
(***************************************************************************)
(* Room-pairing and relay server (src/unnamed/part_000, server v2.2.0).    *)
(*                                                                         *)
(* A socket is a peer 1..NumPeers.  The server state is the `rooms` Map    *)
(* (kept in insertion order, as a JavaScript Map iterates), the fields the *)
(* handlers store on each socket, and the `stats` counters.  Every handler *)
(* is an operator from server state to server state, so that a handler     *)
(* that force-disconnects a socket runs that socket's 'disconnect'         *)
(* listener inside itself: socket.io's Socket.disconnect(true) closes the  *)
(* transport, sets socket.connected to false and emits 'disconnect'        *)
(* synchronously, before it returns.                                       *)
(*                                                                         *)
(* `outbox` is the trace of transport operations (emit, forced disconnect) *)
(* made by the handler or sweep that just ran, in order, and `last` names  *)
(* it; Return hands the outbox to the transport and leaves the server      *)
(* idle, waiting for the next event or timer.                              *)
(* Time stamps (createdAt, lastPong) are stored as ages, now - stamp, in   *)
(* units of TimeUnit milliseconds; an age saturates just above the         *)
(* threshold it is compared with.                                          *)
(***************************************************************************)
EXTENDS Integers, Sequences, FiniteSets, TLC

\* ---------------------------------------------------------------- bounds
NumPeers == 3
NumRelayPeers == 2
NumSweepPeers == 2
NumFairPeers == 1
MaxStat == 2

Peers == 1..NumPeers
\* the peers that take part under SpecRelay and under SpecSweep
RelayPeers == 1..NumRelayPeers
SweepPeers == 1..NumSweepPeers
FairPeers == 1..NumFairPeers
Null == 0

\* ------------------------------------------------------------- constants
\* milliseconds in one step of the model's clock
TimeUnit == 20 * 60 * 1000
ROOM_TIMEOUT == 30 * 60 * 1000
timeout == 120000
\* period of the probe interval
ProbePeriod == 30000
\* the first age, in steps, that lies beyond a threshold of ms milliseconds
Beyond(ms) == (ms \div TimeUnit) + 1

\* ------------------------------------------------------ JavaScript values
Undef == <<"undefined">>
Num(n) == <<"number", n>>
\* Str: a string held as its tuple of characters (room codes);
\* Txt: a string whose characters are never inspected
Str(s) == <<"string", s>>
Txt(t) == <<"string", t, "txt">>
Obj(o) == <<"object", o>>
typeof(v) == v[1]
Truthy(v) ==
    CASE typeof(v) = "undefined" -> FALSE
      [] typeof(v) = "number" -> v[2] # 0
      [] typeof(v) = "string" -> (IF Len(v) = 3 THEN v[2] # "" ELSE v[2] # <<>>)
      [] OTHER -> TRUE
\* mutant of Or: the default replaces whatever was sent
OrDefaultOnly(v, d) == d

\* a || d
Or(v, d) == IF Truthy(v) THEN v ELSE d

Digit(d) == <<"0", "1", "2", "3", "4", "5", "6", "7", "8", "9">>[d + 1]

RECURSIVE Digits(_)
Digits(n) == IF n < 10 THEN <<Digit(n)>> ELSE Append(Digits(n \div 10), Digit(n % 10))

\* value.toString() of a number or a string; a code is a tuple of characters
toString(v) ==
    IF typeof(v) = "number"
    THEN (IF v[2] < 0 THEN <<"-">> \o Digits(0 - v[2]) ELSE Digits(v[2]))
    ELSE v[2]

NoCode == <<>>
\* mutant of chars: the whole alphabet and all ten digits
charsAlphanumeric ==
    <<"A", "B", "C", "D", "E", "F", "G", "H", "I", "J", "K", "L", "M", "N", "O", "P", "Q", "R",
      "S", "T", "U", "V", "W", "X", "Y", "Z", "0", "1", "2", "3", "4", "5", "6", "7", "8", "9">>

\* 'ABCDEFGHJKLMNPQRSTUVWXYZ23456789'
chars == <<"A", "B", "C", "D", "E", "F", "G", "H", "J", "K", "L", "M", "N", "P", "Q", "R",
           "S", "T", "U", "V", "W", "X", "Y", "Z", "2", "3", "4", "5", "6", "7", "8", "9">>
charAt(str, i) == str[i + 1]

\* what the six Math.floor(Math.random() * chars.length) of one call come to
Draws == {<<0, 1, 2, 3, 4, 5>>}
\* two outcomes of the random draws, for the registrations that compare codes
CodeDraws == {<<0, 1, 2, 3, 4, 5>>, <<31, 30, 29, 28, 27, 26>>}
\* the draws of the runs of generateRoomId alone: every index of chars comes
\* up at every position
RandomDraws == {[i \in 1..6 |-> (a + i * b) % Len(chars)] : a, b \in 0..(Len(chars) - 1)}
\* result += chars.charAt(...) for i = 0..5
generateRoomId(draw) == [i \in 1..6 |-> charAt(chars, draw[i])]
GenCodes == {generateRoomId(d) : d \in Draws}

\* mutant of validateRoomId: the length is not looked at
validateRoomIdAnyLength(roomId) == roomId # NoCode

\* roomId && typeof roomId === 'string' && roomId.length >= 4
validateRoomId(roomId) == roomId # NoCode /\ Len(roomId) >= 4

\* the roomId values a client puts in a registration request
RoomIdInputs == {Undef, Num(1234), Str(<<"A", "B">>), Str(<<"A", "B", "C", "D", "E", "F">>)}

\* --------------------------------------------------------------- payloads
Fields == {"slideIndex", "scrollOffset", "pageNumber", "action", "params",
           "documentType", "documentUrl", "metadata", "eventType",
           "roomId", "timestamp", "from", "fromDevice"}
NoFields == [f \in Fields |-> Undef]
\* data === undefined: reading a property of it throws
NoData == [obj |-> FALSE, f |-> NoFields]
Data(fs) == [obj |-> TRUE, f |-> fs]

\* ------------------------------------------------------------------ state
VARIABLES rooms, sockets, stats, outbox, last, clients
vars == <<rooms, sockets, stats, outbox, last, clients>>

NewSocket == [open |-> FALSE, connected |-> FALSE, roomId |-> NoCode,
              deviceType |-> "none", lastPong |-> -1]

Max0(n) == IF n < 0 THEN 0 ELSE n
Min(a, b) == IF a < b THEN a ELSE b

\* ------------------------------------------------------------ the rooms Map
Has(rs, c) == \E i \in 1..Len(rs) : rs[i].roomId = c
Idx(rs, c) == CHOOSE i \in 1..Len(rs) : rs[i].roomId = c
Get(rs, c) == rs[Idx(rs, c)]
Keys(rs) == [i \in 1..Len(rs) |-> rs[i].roomId]
Delete(rs, c) == SelectSeq(rs, LAMBDA r : r.roomId # c)
NoRoom == [roomId |-> NoCode, tv |-> Null, mobile |-> Null, age |-> 0]

\* The server state a handler works on.  orph[c] is the room object that
\* rooms.delete(c) removed from the Map: a handler that still holds a
\* reference to it keeps reading and writing that object.
\* unit: the milliseconds that one step of a lastPong age stands for
State == [rooms |-> rooms, sock |-> sockets, stats |-> stats, out |-> <<>>,
          orph |-> [c \in {} |-> NoRoom], unit |-> TimeUnit]

\* mutant of Live: socket.connected is not looked at
LiveIgnoringConnected(st, p) == p # Null

\* p && p.connected
Live(st, p) == p # Null /\ st.sock[p].connected

\* the room object a handler reached through rooms.get(c) earlier
RoomObj(st, c) ==
    IF Has(st.rooms, c) THEN Get(st.rooms, c)
    ELSE IF c \in DOMAIN st.orph THEN st.orph[c] ELSE NoRoom

\* mutant of SetSlot: every assignment goes to the tv slot
SetSlotTvOnly(st, c, slot, p) ==
    IF Has(st.rooms, c)
    THEN [st EXCEPT !.rooms[Idx(st.rooms, c)].tv = p]
    ELSE IF c \in DOMAIN st.orph THEN [st EXCEPT !.orph[c].tv = p] ELSE st

\* room[slot] = p on the room object reached through rooms.get(c)
SetSlot(st, c, slot, p) ==
    IF Has(st.rooms, c)
    THEN [st EXCEPT !.rooms[Idx(st.rooms, c)][slot] = p]
    ELSE IF c \in DOMAIN st.orph THEN [st EXCEPT !.orph[c][slot] = p] ELSE st

\* socket.emit(ev, ...) and the forced transport close, in call order
Emit(st, to, ev, peer, rid, code, data) ==
    [st EXCEPT !.out = Append(@, [to |-> to, ev |-> ev, live |-> st.sock[to].connected,
                                  peer |-> peer, roomId |-> rid, code |-> code,
                                  data |-> data])]

EmitIf(cond, st, to, ev, peer, rid, code, data) ==
    IF cond THEN Emit(st, to, ev, peer, rid, code, data) ELSE st

\* mutant of cleanupRoom: the peers are told but rooms.delete is missing
cleanupRoomKeepsEntry(st, roomId, reason) ==
    IF Has(st.rooms, roomId)
    THEN LET room == Get(st.rooms, roomId)
             s1 == EmitIf(Live(st, room.tv), st, room.tv, "room_cleanup",
                          Null, NoCode, reason, NoFields)
         IN  EmitIf(Live(st, room.mobile), s1, room.mobile, "room_cleanup",
                    Null, NoCode, reason, NoFields)
    ELSE st

cleanupRoom(st, roomId, reason) ==
    IF Has(st.rooms, roomId)
    THEN LET room == Get(st.rooms, roomId)
             s1 == EmitIf(Live(st, room.tv), st, room.tv, "room_cleanup",
                          Null, NoCode, reason, NoFields)
             s2 == EmitIf(Live(st, room.mobile), s1, room.mobile, "room_cleanup",
                          Null, NoCode, reason, NoFields)
             rs == Delete(s2.rooms, roomId)
         IN  [s2 EXCEPT !.rooms = rs,
                        !.stats.activeRooms = Len(rs),
                        !.orph = [c \in DOMAIN s2.orph \cup {roomId} |->
                                     IF c = roomId THEN room ELSE s2.orph[c]]]
    ELSE st

\* socket.on('disconnect'): runs with socket.connected already false
OnDisconnect(st, s) ==
    LET s1 == [st EXCEPT !.stats.currentConnections = Max0(@ - 1)]
        c == st.sock[s].roomId
        dt == st.sock[s].deviceType
    IN  IF c # NoCode /\ Has(s1.rooms, c)
        THEN LET room == Get(s1.rooms, c)
                 s2 == IF dt = "tv" /\ room.tv = s
                       THEN LET a == [SetSlot(s1, c, "tv", Null) EXCEPT
                                         !.stats.tvConnections = Max0(@ - 1)]
                            IN  EmitIf(Live(a, room.mobile), a, room.mobile,
                                       "tv_disconnected", s, NoCode, "", NoFields)
                       ELSE IF dt = "mobile" /\ room.mobile = s
                       THEN LET a == [SetSlot(s1, c, "mobile", Null) EXCEPT
                                         !.stats.mobileConnections = Max0(@ - 1)]
                            IN  EmitIf(Live(a, room.tv), a, room.tv,
                                       "mobile_disconnected", s, NoCode, "", NoFields)
                       ELSE s1
                 r2 == Get(s2.rooms, c)
             IN  IF ~Live(s2, r2.tv) /\ ~Live(s2, r2.mobile)
                 THEN cleanupRoom(s2, c, "all_devices_disconnected")
                 ELSE s2
        ELSE s1

\* mutant of disconnect: the incumbent is told but never disconnected
disconnectSkipped(st, s) == st

\* socket.disconnect(true): nothing when already closed; otherwise the
\* transport is closed, connected becomes false and 'disconnect' is emitted
disconnect(st, s) ==
    IF st.sock[s].connected
    THEN LET a == Emit(st, s, "force_disconnect", Null, NoCode, "", NoFields)
         IN  OnDisconnect([a EXCEPT !.sock[s].connected = FALSE], s)
    ELSE st

\* mutant of isOtherSocket: the occupant is taken for another socket even
\* when it is the caller
isOtherSocketAlways(p, socket) == TRUE

\* existingRoom.tv.id !== socket.id
isOtherSocket(p, socket) == p # socket

\* socket.on('register_tv')
register_tv(st, socket, rid, draw) ==
    LET roomId0 == IF Truthy(rid) THEN toString(rid) ELSE generateRoomId(draw)
        roomId == IF validateRoomId(roomId0) THEN roomId0 ELSE generateRoomId(draw)
        s1 == IF Has(st.rooms, roomId) /\ Live(st, Get(st.rooms, roomId).tv)
                 /\ isOtherSocket(Get(st.rooms, roomId).tv, socket)
              THEN LET old == Get(st.rooms, roomId).tv
                       a == Emit(st, old, "replaced", Null, NoCode, "", NoFields)
                       b == disconnect(a, old)
                   IN  [b EXCEPT !.stats.tvConnections = Max0(@ - 1)]
              ELSE st
        s2 == IF ~Has(s1.rooms, roomId)
              THEN LET rs == Append(s1.rooms, [NoRoom EXCEPT !.roomId = roomId])
                   IN  [s1 EXCEPT !.rooms = rs, !.stats.activeRooms = Len(rs)]
              ELSE s1
        s3 == [SetSlot(s2, roomId, "tv", socket) EXCEPT
                  !.sock[socket].roomId = roomId,
                  !.sock[socket].deviceType = "tv",
                  !.stats.tvConnections = @ + 1]
        s4 == Emit(s3, socket, "registered", socket, roomId, "", NoFields)
        room == Get(s4.rooms, roomId)
    IN  IF Live(s4, room.mobile)
        THEN LET a == Emit(s4, room.mobile, "tv_connected", socket, NoCode, "", NoFields)
             IN  Emit(a, socket, "mobile_connected", room.mobile, NoCode, "", NoFields)
        ELSE s4


\* mutant of Catch: the catch block also takes the socket out of its room
CatchLeavingRoom(st, socket, code) ==
    Emit([st EXCEPT !.sock[socket].roomId = NoCode], socket, "error", Null, NoCode,
         code, NoFields)

\* a handler's catch block: the state written before the throw stays
Catch(st, socket, code) == Emit(st, socket, "error", Null, NoCode, code, NoFields)

\* mutant of Reject: the rejection is not signalled
RejectSilently(st, socket, code) == st

\* socket.emit('error', { message, code }) followed by return
Reject(st, socket, code) == Emit(st, socket, "error", Null, NoCode, code, NoFields)

\* socket.on('register_mobile')
register_mobile(st, socket, rid) ==
    LET roomId == IF Truthy(rid) THEN toString(rid) ELSE NoCode
    IN  IF roomId = NoCode
        THEN Reject(st, socket, "ROOM_ID_REQUIRED")
        ELSE IF ~validateRoomId(roomId)
        THEN Reject(st, socket, "INVALID_ROOM_ID")
        ELSE IF ~Has(st.rooms, roomId)
        THEN Reject(st, socket, "ROOM_NOT_FOUND")
        ELSE IF ~Live(st, Get(st.rooms, roomId).tv)
        THEN Reject(st, socket, "NO_TV_IN_ROOM")
        ELSE
        LET room == Get(st.rooms, roomId)
            s1 == IF Live(st, room.mobile) /\ room.mobile # socket
                  THEN LET a == Emit(st, room.mobile, "replaced", Null, NoCode, "", NoFields)
                           b == disconnect(a, room.mobile)
                       IN  [b EXCEPT !.stats.mobileConnections = Max0(@ - 1)]
                  ELSE st
            s2 == [SetSlot(s1, roomId, "mobile", socket) EXCEPT
                      !.sock[socket].roomId = roomId,
                      !.sock[socket].deviceType = "mobile",
                      !.stats.mobileConnections = @ + 1]
            tv == RoomObj(s2, roomId).tv
        IN  IF tv = Null
            THEN Catch(s2, socket, "MOBILE_REGISTRATION_ERROR")
            ELSE LET a == Emit(s2, socket, "registered", tv, roomId, "", NoFields)
                 IN  Emit(a, tv, "mobile_connected", socket, NoCode, "", NoFields)

\* ------------------------------------------------------- relay handlers
\* mutant of Unauthorized: the role is not checked
UnauthorizedNoRoleCheck(st, socket) == st.sock[socket].roomId = NoCode

\* socket.deviceType !== 'mobile' || !socket.roomId
Unauthorized(st, socket) ==
    st.sock[socket].deviceType # "mobile" \/ st.sock[socket].roomId = NoCode

\* mutant of NoTv: an occupied tv slot counts as a connected display
NoTvIgnoringConnected(st, socket) ==
    \/ ~Has(st.rooms, st.sock[socket].roomId)
    \/ Get(st.rooms, st.sock[socket].roomId).tv = Null

\* !room?.tv?.connected for room = rooms.get(socket.roomId)
NoTv(st, socket) ==
    \/ ~Has(st.rooms, st.sock[socket].roomId)
    \/ ~Live(st, Get(st.rooms, st.sock[socket].roomId).tv)

TvOf(st, socket) == Get(st.rooms, st.sock[socket].roomId).tv

\* new Date().toISOString() at the server
ServerTime == Txt("now")

\* mutant of Stamp: the payload is spread over the server's fields
StampUnderPayload(fs, st, socket) ==
    [f \in Fields |->
        IF fs[f] # Undef THEN fs[f]
        ELSE IF f = "roomId" THEN Str(st.sock[socket].roomId)
        ELSE IF f = "timestamp" THEN ServerTime
        ELSE IF f = "from" THEN Num(socket)
        ELSE fs[f]]

\* { ...fs, roomId: socket.roomId, timestamp: new Date().toISOString(),
\*   from: socket.id }
Stamp(fs, st, socket) ==
    [fs EXCEPT !.roomId = Str(st.sock[socket].roomId),
               !.timestamp = ServerTime,
               !.from = Num(socket)]

\* mutant of invalidSlideIndex: only the type is looked at
invalidSlideIndexTypeOnly(v) == typeof(v) # "number"

\* typeof data.slideIndex !== 'number' || data.slideIndex < 0
invalidSlideIndex(v) == typeof(v) # "number" \/ v[2] < 0

\* typeof data.pageNumber !== 'number' || data.pageNumber < 1
invalidPageNumber(v) == typeof(v) # "number" \/ v[2] < 1

\* socket.on('slide_change')
slide_change(st, socket, data) ==
    IF Unauthorized(st, socket) THEN Reject(st, socket, "UNAUTHORIZED_SLIDE_CHANGE")
    ELSE IF NoTv(st, socket) THEN Reject(st, socket, "NO_TV_IN_ROOM")
    ELSE IF ~data.obj THEN Catch(st, socket, "SLIDE_CHANGE_ERROR")
    ELSE IF invalidSlideIndex(data.f.slideIndex)
    THEN Reject(st, socket, "INVALID_SLIDE_INDEX")
    ELSE LET out == [NoFields EXCEPT !.slideIndex = data.f.slideIndex]
             a == Emit(st, TvOf(st, socket), "slide_change", socket,
                       st.sock[socket].roomId, "", Stamp(out, st, socket))
         IN  Emit(a, socket, "slide_change_ack", Null, NoCode, "",
                  [out EXCEPT !.timestamp = ServerTime])

\* socket.on('pdf_scroll')
pdf_scroll(st, socket, data) ==
    IF Unauthorized(st, socket) THEN Reject(st, socket, "UNAUTHORIZED_PDF_SCROLL")
    ELSE IF NoTv(st, socket) THEN Reject(st, socket, "NO_TV_IN_ROOM")
    ELSE IF ~data.obj THEN Catch(st, socket, "PDF_SCROLL_ERROR")
    ELSE IF typeof(data.f.scrollOffset) # "number"
    THEN Reject(st, socket, "INVALID_SCROLL_OFFSET")
    ELSE Emit(st, TvOf(st, socket), "pdf_scroll", socket, st.sock[socket].roomId, "",
              Stamp([NoFields EXCEPT !.scrollOffset = data.f.scrollOffset,
                                     !.pageNumber = Or(data.f.pageNumber, Num(1))],
                    st, socket))

\* socket.on('pdf_page_change')
pdf_page_change(st, socket, data) ==
    IF Unauthorized(st, socket) THEN Reject(st, socket, "UNAUTHORIZED_PDF_PAGE_CHANGE")
    ELSE IF NoTv(st, socket) THEN Reject(st, socket, "NO_TV_IN_ROOM")
    ELSE IF ~data.obj THEN Catch(st, socket, "PDF_PAGE_CHANGE_ERROR")
    ELSE IF invalidPageNumber(data.f.pageNumber)
    THEN Reject(st, socket, "INVALID_PAGE_NUMBER")
    ELSE Emit(st, TvOf(st, socket), "pdf_page_change", socket, st.sock[socket].roomId, "",
              Stamp([NoFields EXCEPT !.pageNumber = data.f.pageNumber], st, socket))

\* socket.on('presentation_action')
presentation_action(st, socket, data) ==
    IF Unauthorized(st, socket) THEN Reject(st, socket, "UNAUTHORIZED_PRESENTATION_ACTION")
    ELSE IF NoTv(st, socket) THEN Reject(st, socket, "NO_TV_IN_ROOM")
    ELSE IF ~data.obj THEN Catch(st, socket, "PRESENTATION_ACTION_ERROR")
    ELSE IF ~Truthy(data.f.action) THEN Reject(st, socket, "MISSING_ACTION")
    ELSE Emit(st, TvOf(st, socket), "presentation_action", socket,
              st.sock[socket].roomId, "",
              Stamp([NoFields EXCEPT !.action = data.f.action,
                                     !.params = Or(data.f.params, Obj("{}"))],
                    st, socket))

\* socket.on('load_document')
load_document(st, socket, data) ==
    IF Unauthorized(st, socket) THEN Reject(st, socket, "UNAUTHORIZED_LOAD_DOCUMENT")
    ELSE IF NoTv(st, socket) THEN Reject(st, socket, "NO_TV_IN_ROOM")
    ELSE IF ~data.obj THEN Catch(st, socket, "LOAD_DOCUMENT_ERROR")
    ELSE IF ~Truthy(data.f.documentType) \/ ~Truthy(data.f.documentUrl)
    THEN Reject(st, socket, "MISSING_DOCUMENT_INFO")
    ELSE Emit(st, TvOf(st, socket), "load_document", socket, st.sock[socket].roomId, "",
              Stamp([NoFields EXCEPT !.documentType = data.f.documentType,
                                     !.documentUrl = data.f.documentUrl,
                                     !.metadata = Or(data.f.metadata, Obj("{}"))],
                    st, socket))

\* socket.on('custom_event'): the payload is spread first, then stamped
custom_event(st, socket, data) ==
    IF st.sock[socket].roomId = NoCode THEN Reject(st, socket, "NO_ROOM")
    ELSE IF ~Has(st.rooms, st.sock[socket].roomId)
    THEN Reject(st, socket, "ROOM_NOT_FOUND")
    ELSE IF ~data.obj THEN Catch(st, socket, "CUSTOM_EVENT_ERROR")
    ELSE LET room == Get(st.rooms, st.sock[socket].roomId)
             targetDevice == IF st.sock[socket].deviceType = "mobile"
                             THEN room.tv ELSE room.mobile
         IN  IF Live(st, targetDevice)
             THEN Emit(st, targetDevice, "custom_event", socket,
                       st.sock[socket].roomId, "",
                       [Stamp(data.f, st, socket) EXCEPT
                           !.fromDevice = Txt(st.sock[socket].deviceType)])
             ELSE Reject(st, socket, "TARGET_DEVICE_NOT_CONNECTED")

TypedKinds == {"slide_change", "pdf_scroll", "pdf_page_change", "presentation_action",
               "load_document"}
RelayKinds == TypedKinds \cup {"custom_event"}

Relay(kind, st, socket, data) ==
    CASE kind = "slide_change" -> slide_change(st, socket, data)
      [] kind = "pdf_scroll" -> pdf_scroll(st, socket, data)
      [] kind = "pdf_page_change" -> pdf_page_change(st, socket, data)
      [] kind = "presentation_action" -> presentation_action(st, socket, data)
      [] kind = "load_document" -> load_document(st, socket, data)
      [] kind = "custom_event" -> custom_event(st, socket, data)

\* a payload in which the client has filled in the server's fields itself
Spoofed ==
    [NoFields EXCEPT !.roomId = Txt("other"), !.timestamp = Txt("never"),
                     !.from = Txt("someone"), !.fromDevice = Txt("tv")]

\* the payloads a client sends with each kind
Payloads(kind) ==
    {NoData} \cup
    CASE kind = "slide_change" ->
           {Data([NoFields EXCEPT !.slideIndex = v]) : v \in {Num(0), Num(2), Num(-1), Undef}}
           \cup {Data([Spoofed EXCEPT !.slideIndex = Num(2)])}
      [] kind = "pdf_scroll" ->
           {Data([NoFields EXCEPT !.scrollOffset = v, !.pageNumber = p]) :
               v \in {Num(150), Undef}, p \in {Undef, Num(0), Num(3)}}
      [] kind = "pdf_page_change" ->
           {Data([NoFields EXCEPT !.pageNumber = p]) : p \in {Num(1), Num(5), Num(0), Undef}}
      [] kind = "presentation_action" ->
           {Data([NoFields EXCEPT !.action = a, !.params = p]) :
               a \in {Txt("play"), Txt("rewind"), Undef}, p \in {Undef, Obj("p")}}
      [] kind = "load_document" ->
           {Data([NoFields EXCEPT !.documentType = t, !.documentUrl = u, !.metadata = m]) :
               t \in {Txt("pdf"), Txt("exe"), Undef}, u \in {Txt("url"), Undef},
               m \in {Undef, Obj("m")}}
      [] kind = "custom_event" ->
           {Data([NoFields EXCEPT !.eventType = e]) : e \in {Txt("annotation"), Undef}}
           \cup {Data([Spoofed EXCEPT !.eventType = Txt("annotation")])}

\* --------------------------------------------------------------- sweeps
Unhealthy(st, p) ==
    \/ ~st.sock[p].connected
    \/ (st.sock[p].lastPong # -1 /\ st.sock[p].lastPong * st.unit > timeout)

\* body of the eviction loop for one room of the Map
EvictRoom(st, roomId) ==
    LET m == RoomObj(st, roomId).mobile
        mBad == m # Null /\ Unhealthy(st, m)
        s1 == IF mBad
              THEN LET a == IF st.sock[m].connected
                            THEN disconnect(Emit(st, m, "connection_timeout", Null, NoCode,
                                                 "", NoFields), m)
                            ELSE st
                   IN  [SetSlot(a, roomId, "mobile", Null) EXCEPT
                           !.stats.mobileConnections = Max0(@ - 1)]
              ELSE st
        need1 == mBad /\ ~Live(s1, RoomObj(s1, roomId).tv)
        t == RoomObj(s1, roomId).tv
        tBad == t # Null /\ Unhealthy(s1, t)
        s2 == IF tBad
              THEN LET a == IF s1.sock[t].connected
                            THEN disconnect(Emit(s1, t, "connection_timeout", Null, NoCode,
                                                 "", NoFields), t)
                            ELSE s1
                   IN  [SetSlot(a, roomId, "tv", Null) EXCEPT
                           !.stats.tvConnections = Max0(@ - 1)]
              ELSE s1
        need2 == IF tBad THEN need1 \/ ~Live(s2, RoomObj(s2, roomId).mobile) ELSE need1
    IN  IF need2 THEN cleanupRoom(s2, roomId, "unhealthy_connections") ELSE s2

\* for (const [roomId, room] of rooms.entries()): an entry deleted before
\* the iterator reaches it is not visited
RECURSIVE EvictionLoop(_, _, _)
EvictionLoop(st, keys, i) ==
    IF i > Len(keys) THEN st
    ELSE EvictionLoop(IF Has(st.rooms, keys[i]) THEN EvictRoom(st, keys[i]) ELSE st,
                      keys, i + 1)

EvictionSweepOp(st) == EvictionLoop(st, Keys(st.rooms), 1)

RECURSIVE ProbeLoop(_, _)
ProbeLoop(st, i) ==
    IF i > Len(st.rooms) THEN st
    ELSE LET room == st.rooms[i]
             a == EmitIf(Live(st, room.mobile), st, room.mobile, "ping", Null, NoCode,
                         "", NoFields)
             b == EmitIf(Live(a, room.tv), a, room.tv, "ping", Null, NoCode, "", NoFields)
         IN  ProbeLoop(b, i + 1)

\* mutant of isEmpty: one slot without a connected peer is enough
isEmptyEitherSlot(st, room) == ~Live(st, room.tv) \/ ~Live(st, room.mobile)

\* (!room.tv || !room.tv.connected) && (!room.mobile || !room.mobile.connected)
isEmpty(st, room) == ~Live(st, room.tv) /\ ~Live(st, room.mobile)

\* mutant of isExpired: the age is compared with twice the threshold
isExpiredLate(room) == room.age * TimeUnit > 2 * ROOM_TIMEOUT

\* roomAge > ROOM_TIMEOUT
isExpired(room) == room.age * TimeUnit > ROOM_TIMEOUT

RECURSIVE CleanupAll(_, _, _)
CleanupAll(st, keys, i) ==
    IF i > Len(keys) THEN st
    ELSE CleanupAll(cleanupRoom(st, keys[i], "expired"), keys, i + 1)

roomsToCleanup(st) ==
    Keys(SelectSeq(st.rooms, LAMBDA r : isEmpty(st, r) /\ isExpired(r)))

ExpirySweepOp(st) == CleanupAll(st, roomsToCleanup(st), 1)

\* --------------------------------------------------------------- actions
Op(name, s, arg) == [op |-> name, peer |-> s, arg |-> arg]
Idle == Op("idle", Null, Undef)

Commit(st, op) ==
    /\ last = Idle
    /\ rooms' = st.rooms
    /\ sockets' = st.sock
    /\ stats' = st.stats
    /\ outbox' = st.out
    /\ last' = op
    /\ UNCHANGED clients

Init ==
    /\ rooms = <<>>
    /\ sockets = [p \in Peers |-> NewSocket]
    /\ stats = [totalConnections |-> 0, currentConnections |-> 0, activeRooms |-> 0,
                mobileConnections |-> 0, tvConnections |-> 0]
    /\ outbox = <<>>
    /\ last = Idle
    /\ clients = [mobile |-> Null, tv |-> Null]

\* the handler returns to the event loop
Return ==
    /\ last # Idle
    /\ outbox' = <<>>
    /\ last' = Idle
    /\ UNCHANGED <<rooms, sockets, stats, clients>>

\* io.on('connection'); socket ids are opaque, so sockets open in id order
Connect(s) ==
    /\ ~sockets[s].open
    /\ \A p \in 1..(s - 1) : sockets[p].open
    /\ LET a == [State EXCEPT !.stats.totalConnections = @ + 1,
                              !.stats.currentConnections = @ + 1,
                              !.sock[s].open = TRUE,
                              !.sock[s].connected = TRUE]
       IN  Commit(Emit(a, s, "connected", s, NoCode, "", NoFields), Op("connection", s, Undef))

\* the transport closes the connection of s
Disconnect(s) ==
    /\ sockets[s].connected
    /\ Commit(OnDisconnect([State EXCEPT !.sock[s].connected = FALSE], s),
              Op("disconnect", s, Undef))

\* the 'disconnect' event of s reaches its listener after the socket was
\* already closed from the server side
LateDisconnect(s) ==
    /\ sockets[s].open /\ ~sockets[s].connected
    /\ Commit(OnDisconnect(State, s), Op("disconnect_late", s, Undef))

\* the transport's 'disconnect' event of s is handled right after the
\* eviction sweep that closed s
DisconnectAfterSweep(s) ==
    /\ last.op = "eviction_sweep"
    /\ \E i \in 1..Len(outbox) : outbox[i].to = s /\ outbox[i].ev = "force_disconnect"
    /\ LET st == OnDisconnect(State, s)
       IN  /\ rooms' = st.rooms
           /\ sockets' = st.sock
           /\ stats' = st.stats
           /\ outbox' = outbox \o st.out
           /\ last' = Op("disconnect_after_sweep", s, Undef)
           /\ UNCHANGED clients

\* the transport delivers the 'disconnect' event of s a second time, right
\* after the listener handled the first
Redeliver(s) ==
    /\ last.op = "disconnect" /\ last.peer = s
    /\ LET st == OnDisconnect(State, s)
       IN  /\ rooms' = st.rooms
           /\ sockets' = st.sock
           /\ stats' = st.stats
           /\ outbox' = outbox \o st.out
           /\ last' = Op("disconnect_twice", s, Undef)
           /\ UNCHANGED clients

RegisterTv(s) ==
    /\ sockets[s].connected
    /\ stats.tvConnections < MaxStat
    /\ \E rid \in RoomIdInputs, d \in Draws :
          Commit(register_tv(State, s, rid, d), Op("register_tv", s, rid))

\* register_tv where Math.random may come out in more than one way
RegisterTvAny(s) ==
    /\ sockets[s].connected
    /\ stats.tvConnections < MaxStat
    /\ \E rid \in RoomIdInputs, d \in CodeDraws :
          Commit(register_tv(State, s, rid, d), Op("register_tv", s, rid))

RegisterMobile(s) ==
    /\ sockets[s].connected
    /\ stats.mobileConnections < MaxStat
    /\ \E rid \in RoomIdInputs :
          Commit(register_mobile(State, s, rid), Op("register_mobile", s, rid))

Message(s) ==
    /\ sockets[s].connected
    /\ \E kind \in RelayKinds : \E data \in Payloads(kind) :
          Commit(Relay(kind, State, s, data), Op(kind, s, data))

\* socket.on('pong')
Pong(s) ==
    /\ sockets[s].connected
    /\ Commit([State EXCEPT !.sock[s].lastPong = 0], Op("pong", s, Undef))

\* socket.on('ping')
Ping(s) ==
    /\ sockets[s].connected
    /\ Commit(Emit(State, s, "pong", s, NoCode, "", NoFields), Op("ping", s, Undef))

ProbeSweep == Commit(ProbeLoop(State, 1), Op("probe_sweep", Null, Undef))

EvictionSweep == Commit(EvictionSweepOp(State), Op("eviction_sweep", Null, Undef))

\* the sweep logs roomsToCleanup.length
ExpirySweep ==
    Commit(ExpirySweepOp(State), Op("expiry_sweep", Null, Num(Len(roomsToCleanup(State)))))

\* TimeUnit milliseconds pass while the server is idle; the stamp of a
\* closed socket is never compared again
Tick ==
    /\ last = Idle
    /\ \/ \E i \in 1..Len(rooms) : rooms[i].age < Beyond(ROOM_TIMEOUT)
       \/ \E p \in Peers : sockets[p].connected /\ sockets[p].lastPong # -1
                              /\ sockets[p].lastPong < Beyond(timeout)
    /\ rooms' = [i \in 1..Len(rooms) |->
                    [rooms[i] EXCEPT !.age = Min(@ + 1, Beyond(ROOM_TIMEOUT))]]
    /\ sockets' = [p \in Peers |->
                    IF sockets[p].lastPong = -1 \/ ~sockets[p].connected THEN sockets[p]
                    ELSE [sockets[p] EXCEPT !.lastPong = Min(@ + 1, Beyond(timeout))]]
    /\ UNCHANGED <<stats, outbox, last, clients>>

Pairing(s) ==
    \/ Connect(s)
    \/ Disconnect(s)
    \/ RegisterTv(s)
    \/ RegisterMobile(s)

\* pairing among NumPeers peers
Next ==
    \/ \E s \in Peers : Pairing(s)
    \/ Return

Spec == Init /\ [][Next]_vars

\* pairing and relay among NumRelayPeers peers
NextRelay ==
    \/ \E s \in RelayPeers : Pairing(s)
    \/ \E s \in RelayPeers : Message(s)
    \/ Return

SpecRelay == Init /\ [][NextRelay]_vars

\* pairing, probes and the three sweeps among NumSweepPeers peers
NextSweep ==
    \/ \E s \in SweepPeers : Pairing(s)
    \/ \E s \in SweepPeers : Pong(s)
    \/ \E s \in SweepPeers : Ping(s)
    \/ ProbeSweep
    \/ EvictionSweep
    \/ ExpirySweep
    \/ Tick
    \/ Return

SpecSweep == Init /\ [][NextSweep]_vars

\* pairing with a transport that may fire 'disconnect' twice
NextRedeliver ==
    \/ \E s \in RelayPeers : Pairing(s)
    \/ \E s \in RelayPeers : Redeliver(s)
    \/ Return

SpecRedeliver == Init /\ [][NextRedeliver]_vars

\* pairing where generated codes may or may not coincide
NextCodes ==
    \/ \E s \in RelayPeers : Connect(s)
    \/ \E s \in RelayPeers : Disconnect(s)
    \/ \E s \in RelayPeers : RegisterTvAny(s)
    \/ \E s \in RelayPeers : RegisterMobile(s)
    \/ Return

SpecCodes == Init /\ [][NextCodes]_vars

\* generateRoomId alone: `last` holds the code of the latest call
Generate ==
    \E d \in RandomDraws :
       /\ last' = Op("generateRoomId", Null, Str(generateRoomId(d)))
       /\ UNCHANGED <<rooms, sockets, stats, outbox, clients>>

NextGen == Generate

SpecGen == Init /\ [][NextGen]_vars

\* pairing and the expiry sweep alone: the eviction sweep never runs
NextExpiry ==
    \/ \E s \in SweepPeers : Pairing(s)
    \/ ExpirySweep
    \/ Tick
    \/ Return

SpecExpiry == Init /\ [][NextExpiry]_vars

\* pairing, pongs and the eviction sweep, where the disconnect event of an
\* evicted socket may be handled once more after the sweep
NextEvict ==
    \/ \E s \in SweepPeers : Pairing(s)
    \/ \E s \in SweepPeers : Pong(s)
    \/ \E s \in SweepPeers : DisconnectAfterSweep(s)
    \/ EvictionSweep
    \/ Tick
    \/ Return

SpecEvict == Init /\ [][NextEvict]_vars

\* ---- the probe and eviction timers on a clock of ProbePeriod milliseconds
\* Under SpecProbe a lastPong age counts probe periods and saturates at the
\* first age beyond timeout; room ages are not read (no expiry sweep).
StateProbe == [State EXCEPT !.unit = ProbePeriod]

\* ProbePeriod milliseconds pass
Later(st) ==
    [st EXCEPT !.sock = [p \in Peers |->
        IF st.sock[p].lastPong = -1 \/ ~st.sock[p].connected THEN st.sock[p]
        ELSE [st.sock[p] EXCEPT !.lastPong = Min(@ + 1, (timeout \div ProbePeriod) + 1)]]]

\* the probe interval comes due
ProbeTimer ==
    Commit(ProbeLoop(Later(StateProbe), 1), Op("probe_timer", Null, Undef))

\* the probe interval and the eviction interval (four probe periods) come
\* due in the same turn of the event loop, in either order
EvictionTimer ==
    \E first \in {"probe", "eviction"} :
       \E before \in {IF first = "probe" THEN ProbeLoop(Later(StateProbe), 1)
                                         ELSE Later(StateProbe)} :
          \E swept \in {EvictionSweepOp(before)} :
             Commit(IF first = "probe" THEN swept ELSE ProbeLoop(swept, 1),
                    Op(first \o "_first_timers", Null, Undef))

\* s was sent a ping that it has not answered
Pinged(s) == \E i \in 1..Len(outbox) : outbox[i].to = s /\ outbox[i].ev = "ping"

\* socket.on('pong'), sent by s in reply to a ping of the last probe sweep
Answer(s) ==
    /\ last.op \in {"probe_timer", "probe_first_timers", "eviction_first_timers"}
    /\ sockets[s].connected
    /\ Pinged(s)
    /\ LET i == CHOOSE i \in 1..Len(outbox) : outbox[i].to = s /\ outbox[i].ev = "ping"
       IN  outbox' = SubSeq(outbox, 1, i - 1) \o SubSeq(outbox, i + 1, Len(outbox))
    /\ sockets' = [sockets EXCEPT ![s].lastPong = 0]
    /\ UNCHANGED <<rooms, stats, last, clients>>

\* the peers that answer every ping before anything else happens
Responsive == {1}

\* the turn ends once the responsive peers have answered
ReturnAnswered ==
    /\ \A s \in Responsive : ~(sockets[s].connected /\ Pinged(s))
    /\ Return

\* one peer, its registrations and pongs, and the two timers
NextProbe ==
    \/ \E s \in FairPeers : Pairing(s)
    \/ \E s \in FairPeers : Pong(s)
    \/ \E s \in FairPeers : Answer(s)
    \/ ProbeTimer
    \/ EvictionTimer
    \/ ReturnAnswered

SpecProbe == Init /\ [][NextProbe]_vars

\* ---- a sweep whose step for one room throws
\* Neither loop has a try/catch: the exception leaves the loop and the timer
\* callback, and reaches process.on('uncaughtException'), which shuts the
\* server down. The step of the f-th room throws at its first statement.
EvictionFaultOp(st, f) == EvictionLoop(st, SubSeq(Keys(st.rooms), 1, f - 1), 1)

EvictionSweepFault ==
    \E f \in 1..Len(rooms) : \E st \in {EvictionFaultOp(State, f)} :
       /\ Has(st.rooms, rooms[f].roomId)
       /\ Commit(st, Op("eviction_sweep_fault", Null, Num(f)))

\* the throw comes while roomsToCleanup is collected, before the forEach
ExpirySweepFault ==
    \E f \in 1..Len(rooms) : Commit(State, Op("expiry_sweep_fault", Null, Num(f)))

\* the server is up: no sweep has thrown
Running == last.op \notin {"eviction_sweep_fault", "expiry_sweep_fault"}

NextFault ==
    \/ \E s \in SweepPeers : Pairing(s)
    \/ \E s \in SweepPeers : Pong(s)
    \/ ExpirySweep
    \/ EvictionSweepFault
    \/ ExpirySweepFault
    \/ Tick
    \/ (Running /\ Return)

SpecFault == Init /\ [][NextFault]_vars

\* one peer, its pongs and the three sweeps, where the interval timers keep
\* firing and time keeps passing
NextFair ==
    \/ \E s \in FairPeers : Pairing(s)
    \/ \E s \in FairPeers : Pong(s)
    \/ ProbeSweep
    \/ EvictionSweep
    \/ ExpirySweep
    \/ Tick
    \/ Return

\* setInterval fires the sweep named op again and again: a sweep is enabled
\* exactly when the server is idle and leaves its name in last, so this is
\* strong fairness of that sweep, written over last
Fires(op) == []<>(last = Idle) => []<>(last.op = op)

SpecFair ==
    /\ Init /\ [][NextFair]_vars
    /\ Fires("probe_sweep") /\ Fires("eviction_sweep") /\ Fires("expiry_sweep")
    /\ SF_vars(Tick) /\ WF_vars(Return)

\* pairing where the disconnect event of a closed socket may arrive late
NextLate ==
    \/ \E s \in Peers : Pairing(s)
    \/ \E s \in Peers : LateDisconnect(s)
    \/ Return

SpecLate == Init /\ [][NextLate]_vars

\* ============================================ src/server.js (single pair)
\* the state a handler of the single-pair server works on
State1 == [clients |-> clients, sock |-> sockets, stats |-> stats, out |-> <<>>]

Commit1(st, op) ==
    /\ last = Idle
    /\ clients' = st.clients
    /\ sockets' = st.sock
    /\ stats' = st.stats
    /\ outbox' = st.out
    /\ last' = op
    /\ UNCHANGED rooms

\* ['mobile', 'tv'].includes(deviceType)
validateDeviceType(deviceType) == deviceType \in {Txt("mobile"), Txt("tv")}

\* socket.on('disconnect') of the single-pair server
onDisconnect1(st, s) ==
    LET s1 == [st EXCEPT !.stats.currentConnections = @ - 1]
        dt == st.sock[s].deviceType
    IN  IF dt = "mobile"
        THEN LET a == [s1 EXCEPT !.clients.mobile = Null,
                                 !.stats.mobileConnections = @ - 1]
             IN  EmitIf(a.clients.tv # Null, a, a.clients.tv, "mobile_disconnected",
                        Null, NoCode, "", NoFields)
        ELSE IF dt = "tv"
        THEN LET a == [s1 EXCEPT !.clients.tv = Null,
                                 !.stats.tvConnections = @ - 1]
             IN  EmitIf(a.clients.mobile # Null, a, a.clients.mobile, "tv_disconnected",
                        Null, NoCode, "", NoFields)
        ELSE s1

\* socket.disconnect(): nothing when already closed; otherwise connected
\* becomes false and 'disconnect' is emitted
disconnect1(st, s) ==
    IF st.sock[s].connected
    THEN LET a == Emit(st, s, "force_disconnect", Null, NoCode, "", NoFields)
         IN  onDisconnect1([a EXCEPT !.sock[s].connected = FALSE], s)
    ELSE st

\* what a client sends with 'register'
RegisterData ==
    {[obj |-> FALSE, deviceType |-> Undef]} \cup
    {[obj |-> TRUE, deviceType |-> v] : v \in {Undef, Txt("mobile"), Txt("tv"), Txt("tablet")}}

\* socket.on('register')
register(st, socket, data) ==
    IF ~data.obj THEN Catch(st, socket, "REGISTRATION_ERROR")
    ELSE IF ~validateDeviceType(data.deviceType)
    THEN Reject(st, socket, "INVALID_DEVICE_TYPE")
    ELSE LET slot == data.deviceType[2]
             other == IF slot = "mobile" THEN "tv" ELSE "mobile"
             old == st.clients[slot]
             s1 == IF old # Null /\ old # socket
                   THEN LET a == Emit(st, old, "replaced", Null, NoCode, "", NoFields)
                            b == disconnect1(a, old)
                        IN  IF slot = "mobile"
                            THEN [b EXCEPT !.stats.mobileConnections = @ - 1]
                            ELSE [b EXCEPT !.stats.tvConnections = @ - 1]
                   ELSE st
             s2 == [s1 EXCEPT !.clients[slot] = socket,
                              !.sock[socket].deviceType = slot]
             s3 == IF slot = "mobile"
                   THEN [s2 EXCEPT !.stats.mobileConnections = @ + 1]
                   ELSE [s2 EXCEPT !.stats.tvConnections = @ + 1]
             s4 == EmitIf(s3.clients[other] # Null, s3, s3.clients[other],
                          IF slot = "mobile" THEN "mobile_connected" ELSE "tv_connected",
                          socket, NoCode, "", NoFields)
         IN  Emit(s4, socket, "registered", socket, NoCode, "", NoFields)

validActions == {Txt("play"), Txt("pause"), Txt("stop"), Txt("next"), Txt("previous"),
                 Txt("fullscreen"), Txt("exit_fullscreen")}
validTypes == {Txt("pdf"), Txt("powerpoint"), Txt("image"), Txt("video")}

\* the check that makes a relay handler of the single-pair server throw
throws1(kind, data) ==
    \/ ~data.obj
    \/ CASE kind = "slide_change" -> typeof(data.f.slideIndex) # "number"
          [] kind = "pdf_scroll" -> typeof(data.f.scrollOffset) # "number"
          [] kind = "pdf_page_change" -> typeof(data.f.pageNumber) # "number"
          [] kind = "presentation_action" -> data.f.action \notin validActions
          [] kind = "load_document" -> data.f.documentType \notin validTypes
          [] kind = "custom_event" -> FALSE

\* the code sent by the catch block of each relay handler
catchCode1(kind) ==
    CASE kind = "slide_change" -> "INVALID_SLIDE_DATA"
      [] kind = "pdf_scroll" -> "INVALID_SCROLL_DATA"
      [] kind = "pdf_page_change" -> "INVALID_PAGE_DATA"
      [] kind = "presentation_action" -> "INVALID_ACTION"
      [] kind = "load_document" -> "INVALID_DOCUMENT_DATA"
      [] kind = "custom_event" -> "INVALID_CUSTOM_EVENT"

\* mutant of mobileWithTv: the sender's role is not looked at
mobileWithTvNoRoleCheck(st, socket) == st.clients.tv # Null

\* socket.deviceType === 'mobile' && clients.tv
mobileWithTv(st, socket) ==
    st.sock[socket].deviceType = "mobile" /\ st.clients.tv # Null

\* the six relay handlers of the single-pair server: the same code but for
\* the validation and the catch block's code
Relay1(kind, st, socket, data) ==
    IF mobileWithTv(st, socket)
    THEN IF throws1(kind, data)
         THEN Catch(st, socket, catchCode1(kind))
         ELSE Emit(st, st.clients.tv, kind, socket, NoCode, "",
                   [data.f EXCEPT !.timestamp = ServerTime, !.from = Num(socket)])
    ELSE Emit(st, socket, "error", Null, NoCode, "UNAUTHORIZED_OR_NO_TV", NoFields)

\* io.on('connection') of the single-pair server
Connect1(s) ==
    /\ ~sockets[s].open
    /\ \A p \in 1..(s - 1) : sockets[p].open
    /\ Commit1([State1 EXCEPT !.stats.totalConnections = @ + 1,
                              !.stats.currentConnections = @ + 1,
                              !.sock[s].open = TRUE,
                              !.sock[s].connected = TRUE],
               Op("connection", s, Undef))

\* the transport closes the connection of s
Disconnect1(s) ==
    /\ sockets[s].connected
    /\ Commit1(onDisconnect1([State1 EXCEPT !.sock[s].connected = FALSE], s),
               Op("disconnect", s, Undef))

\* the 'disconnect' event of s reaches its listener again after the socket
\* was closed
LateDisconnect1(s) ==
    /\ sockets[s].open /\ ~sockets[s].connected
    /\ stats.currentConnections > -MaxStat
    /\ stats.mobileConnections > -MaxStat /\ stats.tvConnections > -MaxStat
    /\ Commit1(onDisconnect1(State1, s), Op("disconnect_late", s, Undef))

Register1(s) ==
    /\ sockets[s].connected
    /\ stats.mobileConnections < MaxStat /\ stats.tvConnections < MaxStat
    /\ \E data \in RegisterData :
          Commit1(register(State1, s, data), Op("register", s, data.deviceType))

Message1(s) ==
    /\ sockets[s].connected
    /\ \E kind \in RelayKinds : \E data \in Payloads(kind) :
          Commit1(Relay1(kind, State1, s, data), Op(kind, s, data))

\* the single-pair server with two sockets and the relay handlers
NextSingleRelay ==
    \/ \E s \in RelayPeers : Connect1(s)
    \/ \E s \in RelayPeers : Disconnect1(s)
    \/ \E s \in RelayPeers : Register1(s)
    \/ \E s \in RelayPeers : Message1(s)
    \/ Return

SpecSingleRelay == Init /\ [][NextSingleRelay]_vars

\* the single-pair server where a disconnect event may arrive late
NextSingle ==
    \/ \E s \in Peers : Connect1(s)
    \/ \E s \in Peers : Disconnect1(s)
    \/ \E s \in Peers : Register1(s)
    \/ \E s \in Peers : LateDisconnect1(s)
    \/ Return

SpecSingle == Init /\ [][NextSingle]_vars

\* ================= src/.env.example :442-1133 (multi-room server v2.0.0)
\* the state a handler of the v2.0.0 server works on
State2 == [rooms |-> rooms, sock |-> sockets, stats |-> stats, out |-> <<>>]

HexDigits == <<"0", "1", "2", "3", "4", "5", "6", "7", "8", "9",
               "A", "B", "C", "D", "E", "F">>

\* the three bytes crypto.randomBytes(3) may return
ByteDraws == {<<0, 175, 18>>, <<255, 1, 16>>}

\* crypto.randomBytes(3).toString('hex').toUpperCase()
generateRoomId2(bytes) ==
    [i \in 1..6 |-> IF i % 2 = 1 THEN HexDigits[(bytes[(i + 1) \div 2] \div 16) + 1]
                                 ELSE HexDigits[(bytes[i \div 2] % 16) + 1]]

\* what a client sends as data of register_tv and register_mobile
RegisterData2 ==
    {[obj |-> FALSE, roomId |-> Undef]} \cup
    {[obj |-> TRUE, roomId |-> v] : v \in {Undef, Str(<<"0", "0", "A", "F", "1", "2">>),
                                           Str(<<"R", "1">>)}}

SetSlot2(st, c, slot, p) ==
    IF Has(st.rooms, c) THEN [st EXCEPT !.rooms[Idx(st.rooms, c)][slot] = p] ELSE st

\* cleanupRoom of the v2.0.0 server
cleanupRoom2(st, roomId) ==
    IF Has(st.rooms, roomId)
    THEN LET rs == Delete(st.rooms, roomId)
         IN  [st EXCEPT !.rooms = rs, !.stats.activeRooms = Len(rs)]
    ELSE st

\* socket.on('disconnect') of the v2.0.0 server
onDisconnect2(st, s) ==
    LET s1 == [st EXCEPT !.stats.currentConnections = @ - 1]
        c == st.sock[s].roomId
        dt == st.sock[s].deviceType
    IN  IF c # NoCode /\ Has(s1.rooms, c)
        THEN LET room == Get(s1.rooms, c)
                 s2 == IF dt = "tv"
                       THEN LET a == [SetSlot2(s1, c, "tv", Null) EXCEPT
                                         !.stats.tvConnections = @ - 1]
                            IN  EmitIf(room.mobile # Null, a, room.mobile,
                                       "tv_disconnected", Null, NoCode, "", NoFields)
                       ELSE IF dt = "mobile"
                       THEN LET a == [SetSlot2(s1, c, "mobile", Null) EXCEPT
                                         !.stats.mobileConnections = @ - 1]
                            IN  EmitIf(room.tv # Null, a, room.tv,
                                       "mobile_disconnected", Null, NoCode, "", NoFields)
                       ELSE s1
                 r2 == Get(s2.rooms, c)
             IN  IF r2.tv = Null /\ r2.mobile = Null
                 THEN cleanupRoom2(s2, c)
                 ELSE s2
        ELSE s1

\* socket.disconnect() in the v2.0.0 server
disconnect2(st, s) ==
    IF st.sock[s].connected
    THEN LET a == Emit(st, s, "force_disconnect", Null, NoCode, "", NoFields)
         IN  onDisconnect2([a EXCEPT !.sock[s].connected = FALSE], s)
    ELSE st

\* socket.on('register_tv') of the v2.0.0 server
register_tv2(st, socket, data, bytes) ==
    IF ~data.obj THEN Catch(st, socket, "REGISTRATION_ERROR")
    ELSE LET roomId == IF Truthy(data.roomId) THEN data.roomId[2]
                       ELSE generateRoomId2(bytes)
         IN  IF Has(st.rooms, roomId) /\ Get(st.rooms, roomId).tv # Null
             THEN Reject(st, socket, "ROOM_TV_EXISTS")
             ELSE LET s1 == IF ~Has(st.rooms, roomId)
                            THEN LET rs == Append(st.rooms, [NoRoom EXCEPT !.roomId = roomId])
                                 IN  [st EXCEPT !.rooms = rs, !.stats.activeRooms = Len(rs)]
                            ELSE st
                      old == Get(s1.rooms, roomId).tv
                      s2 == IF old # Null /\ old # socket
                            THEN LET a == Emit(s1, old, "replaced", Null, NoCode, "", NoFields)
                                 IN  [disconnect2(a, old) EXCEPT !.stats.tvConnections = @ - 1]
                            ELSE s1
                      s3 == [SetSlot2(s2, roomId, "tv", socket) EXCEPT
                                !.sock[socket].roomId = roomId,
                                !.sock[socket].deviceType = "tv",
                                !.stats.tvConnections = @ + 1]
                      s4 == Emit(s3, socket, "registered", socket, roomId, "", NoFields)
                      mobile == IF Has(s4.rooms, roomId) THEN Get(s4.rooms, roomId).mobile
                                ELSE Null
                  IN  EmitIf(mobile # Null, s4, mobile, "tv_connected", socket, NoCode, "",
                             NoFields)

\* socket.on('register_mobile') of the v2.0.0 server; when the replaced
\* mobile's disconnect handler deleted the room, `room` is an object outside
\* the Map with both slots null
register_mobile2(st, socket, data) ==
    IF ~data.obj THEN Catch(st, socket, "REGISTRATION_ERROR")
    ELSE IF ~Truthy(data.roomId) THEN Reject(st, socket, "ROOM_ID_REQUIRED")
    ELSE IF ~Has(st.rooms, data.roomId[2]) THEN Reject(st, socket, "ROOM_NOT_FOUND")
    ELSE LET roomId == data.roomId[2]
             old == Get(st.rooms, roomId).mobile
             s1 == IF old # Null /\ old # socket
                   THEN LET a == Emit(st, old, "replaced", Null, NoCode, "", NoFields)
                        IN  [disconnect2(a, old) EXCEPT !.stats.mobileConnections = @ - 1]
                   ELSE st
             s2 == [SetSlot2(s1, roomId, "mobile", socket) EXCEPT
                       !.sock[socket].roomId = roomId,
                       !.sock[socket].deviceType = "mobile",
                       !.stats.mobileConnections = @ + 1]
             s3 == Emit(s2, socket, "registered", socket, roomId, "", NoFields)
             tv == IF Has(s3.rooms, roomId) THEN Get(s3.rooms, roomId).tv ELSE Null
         IN  EmitIf(tv # Null, s3, tv, "mobile_connected", socket, NoCode, "", NoFields)

RECURSIVE CleanupLoop2(_, _, _)
CleanupLoop2(st, snap, i) ==
    IF i > Len(snap) THEN st
    ELSE CleanupLoop2(IF snap[i].age * TimeUnit > ROOM_TIMEOUT
                      THEN cleanupRoom2(st, snap[i].roomId) ELSE st,
                      snap, i + 1)

\* the periodic room cleanup of the v2.0.0 server
periodicCleanup2(st) == CleanupLoop2(st, st.rooms, 1)

\* io.on('connection') of the v2.0.0 server
Connect2(s) ==
    /\ ~sockets[s].open
    /\ \A p \in 1..(s - 1) : sockets[p].open
    /\ Commit([State2 EXCEPT !.stats.totalConnections = @ + 1,
                             !.stats.currentConnections = @ + 1,
                             !.sock[s].open = TRUE,
                             !.sock[s].connected = TRUE],
              Op("connection", s, Undef))

Disconnect2(s) ==
    /\ sockets[s].connected
    /\ Commit(onDisconnect2([State2 EXCEPT !.sock[s].connected = FALSE], s),
              Op("disconnect", s, Undef))

RegisterTv2(s) ==
    /\ sockets[s].connected
    /\ stats.tvConnections < MaxStat
    /\ \E data \in RegisterData2, bytes \in ByteDraws :
          Commit(register_tv2(State2, s, data, bytes), Op("register_tv", s, data.roomId))

RegisterMobile2(s) ==
    /\ sockets[s].connected
    /\ stats.mobileConnections < MaxStat
    /\ \E data \in RegisterData2 :
          Commit(register_mobile2(State2, s, data), Op("register_mobile", s, data.roomId))

PeriodicCleanup2 ==
    Commit(periodicCleanup2(State2), Op("periodic_cleanup", Null, Undef))

\* pairing and the periodic room cleanup of the v2.0.0 server
NextV2 ==
    \/ \E s \in SweepPeers : Connect2(s)
    \/ \E s \in SweepPeers : Disconnect2(s)
    \/ \E s \in SweepPeers : RegisterTv2(s)
    \/ \E s \in SweepPeers : RegisterMobile2(s)
    \/ PeriodicCleanup2
    \/ Tick
    \/ Return

SpecV2 == Init /\ [][NextV2]_vars

\* ================================================================ claims
CodeOf(rid) == IF Truthy(rid) THEN toString(rid) ELSE NoCode
Sent(ob, to, ev) == {i \in 1..Len(ob) : ob[i].to = to /\ ob[i].ev = ev}
\* socket `to` was told `ev` and then had its transport closed
NoticeThenClosed(ob, to, ev) ==
    \E i \in Sent(ob, to, ev), j \in Sent(ob, to, "force_disconnect") : i < j /\ ob[i].live
HoldsSlot(rs, p) == \E k \in 1..Len(rs) : rs[k].tv = p \/ rs[k].mobile = p
OnlyError(ob, to, code) ==
    Len(ob) = 1 /\ ob[1].to = to /\ ob[1].ev = "error" /\ ob[1].code = code

\* ---- C1
C1_Step(T, M) ==
    LET c == CodeOf(last'.arg)
    IN  (/\ last'.op = "register_mobile" /\ last'.peer = M
         /\ Has(rooms, c) /\ Get(rooms, c).tv = T
         /\ Sent(outbox', M, "registered") # {}
         /\ sockets'[T].connected)
        => /\ Has(rooms', c)
           /\ Get(rooms', c).tv = T
           /\ Get(rooms', c).mobile = M
           /\ \E i \in Sent(outbox', T, "mobile_connected") :
                 outbox'[i].peer = M /\ outbox'[i].live
           /\ \E i \in Sent(outbox', M, "registered") :
                 outbox'[i].peer = T /\ outbox'[i].roomId = c /\ outbox'[i].live

\* C1: when M completes register_mobile with code c while T, the peer that
\* registered as tv of room c, is still connected and T # M, room c holds T
\* in its tv slot and M in its mobile slot, T was sent mobile_connected naming
\* M and M was sent 'registered' with tvId = T.
C1_PairingLeavesBothSlotsFilled ==
    [][\A T \in Peers : \A M \in Peers \ {T} : C1_Step(T, M)]_vars

C1_Witness ==
    /\ last.op = "register_mobile"
    /\ Sent(outbox, last.peer, "registered") # {}
    /\ LET c == CodeOf(last.arg)
       IN  /\ Has(rooms, c)
           /\ Get(rooms, c).mobile = last.peer
           /\ Get(rooms, c).tv \in Peers \ {last.peer}
           /\ sockets[Get(rooms, c).tv].connected
           /\ Sent(outbox, Get(rooms, c).tv, "mobile_connected") # {}

\* ---- C2
ValidActions == {Txt("play"), Txt("pause"), Txt("stop"), Txt("next"), Txt("previous"),
                 Txt("fullscreen"), Txt("exit_fullscreen")}
ValidTypes == {Txt("pdf"), Txt("powerpoint"), Txt("image"), Txt("video")}

\* a message that is valid for its kind
Valid(kind, d) ==
    /\ d.obj
    /\ CASE kind = "slide_change" ->
              typeof(d.f.slideIndex) = "number" /\ d.f.slideIndex[2] >= 0
         [] kind = "pdf_scroll" ->
              /\ typeof(d.f.scrollOffset) = "number"
              /\ typeof(d.f.pageNumber) \in {"undefined", "number"}
         [] kind = "pdf_page_change" ->
              typeof(d.f.pageNumber) = "number" /\ d.f.pageNumber[2] >= 1
         [] kind = "presentation_action" -> d.f.action \in ValidActions
         [] kind = "load_document" ->
              /\ d.f.documentType \in ValidTypes
              /\ Truthy(d.f.documentUrl)
              /\ typeof(d.f.metadata) \in {"undefined", "object"}
         [] OTHER -> FALSE

KindFields(kind) ==
    CASE kind = "slide_change" -> {"slideIndex"}
      [] kind = "pdf_scroll" -> {"scrollOffset", "pageNumber"}
      [] kind = "pdf_page_change" -> {"pageNumber"}
      [] kind = "presentation_action" -> {"action"}
      [] kind = "load_document" -> {"documentType", "documentUrl", "metadata"}
      [] OTHER -> {}

\* what the server fills in for a field that is missing or falsy
Default(kind, f) ==
    IF kind = "pdf_scroll" /\ f = "pageNumber" THEN Num(1)
    ELSE IF kind = "load_document" /\ f = "metadata" THEN Obj("{}")
    ELSE Undef

OfKind(ob, kind) == {i \in 1..Len(ob) : ob[i].ev = kind}

\* C2 as stated: a valid typed message from the peer in the mobile slot of a
\* room whose tv slot holds a connected peer is sent exactly once, to that tv
\* peer, with every field of the kind equal to the value sent.
C2_Original ==
    \A k \in 1..Len(rooms) :
       (/\ last.op \in TypedKinds /\ Valid(last.op, last.arg)
        /\ rooms[k].mobile = last.peer
        /\ rooms[k].tv # Null /\ sockets[rooms[k].tv].connected)
       => /\ Cardinality(OfKind(outbox, last.op)) = 1
          /\ \A i \in OfKind(outbox, last.op) :
                /\ outbox[i].to = rooms[k].tv
                /\ \A f \in KindFields(last.op) : outbox[i].data[f] = last.arg.f[f]

\* C2 (amended): a valid typed message from a peer whose role is mobile and
\* whose assigned room has a connected peer in its tv slot is sent exactly
\* once, to that tv peer and to nobody else, live, and every field of the kind
\* arrives as sent, except that a pageNumber of pdf_scroll that is missing or
\* 0 arrives as 1 and a metadata of load_document that is missing arrives as
\* {}.
C2_TypedRelayDeliversOnce ==
    LET s == last.peer
        c == sockets[s].roomId
    IN  (/\ last.op \in TypedKinds /\ Valid(last.op, last.arg)
         /\ sockets[s].deviceType = "mobile"
         /\ Has(rooms, c) /\ Get(rooms, c).tv # Null
         /\ sockets[Get(rooms, c).tv].connected)
        => /\ Cardinality(OfKind(outbox, last.op)) = 1
           /\ \A i \in OfKind(outbox, last.op) :
                 /\ outbox[i].to = Get(rooms, c).tv
                 /\ outbox[i].live
                 /\ \A f \in KindFields(last.op) :
                       outbox[i].data[f] =
                           IF Default(last.op, f) # Undef /\ ~Truthy(last.arg.f[f])
                           THEN Default(last.op, f)
                           ELSE last.arg.f[f]

C2_Witness ==
    /\ last.op = "pdf_scroll" /\ Valid(last.op, last.arg)
    /\ last.arg.f.pageNumber = Num(3)
    /\ \E i \in OfKind(outbox, "pdf_scroll") :
          /\ outbox[i].live /\ outbox[i].to # last.peer
          /\ outbox[i].data.pageNumber = Num(3)

\* ---- C3
\* C3: a typed message from a peer whose role is not mobile, or that has no
\* assigned room code, is sent to nobody: the only transport operation of the
\* handler is one error sent to the sender.
C3_WrongRoleIsRejected ==
    (/\ last.op \in TypedKinds
     /\ \/ sockets[last.peer].deviceType # "mobile"
        \/ sockets[last.peer].roomId = NoCode)
    => /\ Len(outbox) = 1
       /\ outbox[1].to = last.peer /\ outbox[1].ev = "error" /\ outbox[1].live

\* a registered TV with a connected controller in its room sends a valid message
C3_Witness ==
    /\ last.op \in TypedKinds /\ Valid(last.op, last.arg)
    /\ sockets[last.peer].deviceType = "tv"
    /\ LET c == sockets[last.peer].roomId
       IN  /\ Has(rooms, c) /\ Get(rooms, c).tv = last.peer
           /\ Get(rooms, c).mobile \in Peers \ {last.peer}
           /\ sockets[Get(rooms, c).mobile].connected
    /\ Len(outbox) = 1 /\ outbox[1].ev = "error"

\* ---- C4
C4_Step(T1, T2) ==
    LET c == CodeOf(last'.arg)
    IN  (/\ last'.op = "register_tv" /\ last'.peer = T2
         /\ Has(rooms, c) /\ Get(rooms, c).tv = T1 /\ sockets[T1].connected)
        => /\ NoticeThenClosed(outbox', T1, "replaced")
           /\ ~sockets'[T1].connected
           /\ Has(rooms', c) /\ Get(rooms', c).tv = T2
           /\ ~HoldsSlot(rooms', T1)

\* C4 as stated: when T2 calls register_tv with code c while a different
\* connected peer T1 holds the tv slot of room c, T1 is sent 'replaced' before
\* it is disconnected, the tv slot of room c ends holding T2, and T1 ends
\* holding no slot.
C4_Original ==
    [][\A T1 \in Peers : \A T2 \in Peers \ {T1} : C4_Step(T1, T2)]_vars

\* ---- C5
C5_Step(TV, M1, M2) ==
    LET c == CodeOf(last'.arg)
    IN  (/\ last'.op = "register_mobile" /\ last'.peer = M2
         /\ Has(rooms, c)
         /\ Get(rooms, c).tv = TV /\ sockets[TV].connected
         /\ Get(rooms, c).mobile = M1 /\ sockets[M1].connected)
        => /\ NoticeThenClosed(outbox', M1, "replaced")
           /\ ~sockets'[M1].connected
           /\ Has(rooms', c) /\ Get(rooms', c).mobile = M2
           /\ \E i \in Sent(outbox', TV, "mobile_connected") :
                 outbox'[i].peer = M2 /\ outbox'[i].live

\* C5: when M2 calls register_mobile with code c while room c has a connected
\* TV and a connected peer M1, different from the TV and from M2, in its
\* mobile slot, M1 is sent 'replaced' before it is disconnected, the mobile
\* slot of room c ends holding M2, and the TV is sent mobile_connected naming
\* M2.
C5_ControllerReplacement ==
    [][\A TV \in Peers : \A M1 \in Peers \ {TV} : \A M2 \in Peers \ {M1} :
          C5_Step(TV, M1, M2)]_vars

C5_Witness ==
    /\ last.op = "register_mobile"
    /\ \E M1 \in Peers \ {last.peer} : NoticeThenClosed(outbox, M1, "replaced")
    /\ LET c == CodeOf(last.arg)
       IN  /\ Has(rooms, c) /\ Get(rooms, c).mobile = last.peer
           /\ Get(rooms, c).tv \in Peers \ {last.peer}
           /\ Sent(outbox, Get(rooms, c).tv, "mobile_connected") # {}

\* ---- C6
\* C6: register_mobile with a code whose room exists but whose tv slot is
\* empty or holds a non-connected peer sends the caller the error
\* NO_TV_IN_ROOM and nothing else, and leaves the room table and every
\* socket's role and room code as they were.
C6_NoDisplayRejected ==
    [][LET c == CodeOf(last'.arg)
       IN  (/\ last'.op = "register_mobile"
            /\ Has(rooms, c)
            /\ \/ Get(rooms, c).tv = Null
               \/ ~sockets[Get(rooms, c).tv].connected)
           => /\ OnlyError(outbox', last'.peer, "NO_TV_IN_ROOM")
              /\ rooms' = rooms
              /\ sockets' = sockets
              /\ stats' = stats]_vars

\* the rejected caller found a room whose tv slot holds a closed socket
C6_Witness ==
    /\ last.op = "register_mobile"
    /\ OnlyError(outbox, last.peer, "NO_TV_IN_ROOM")
    /\ Has(rooms, CodeOf(last.arg))
    /\ Get(rooms, CodeOf(last.arg)).tv # Null

C6_WitnessEmptySlot ==
    /\ last.op = "register_mobile"
    /\ OnlyError(outbox, last.peer, "NO_TV_IN_ROOM")
    /\ Has(rooms, CodeOf(last.arg))
    /\ Get(rooms, CodeOf(last.arg)).tv = Null

\* ---- C7
\* C7: register_mobile with a well-formed code for which no room exists sends
\* the caller the error ROOM_NOT_FOUND and nothing else, creates no room,
\* installs the caller in no slot and leaves its role and room code unchanged.
C7_MissingRoomRejected ==
    [][LET c == CodeOf(last'.arg)
       IN  (/\ last'.op = "register_mobile"
            /\ validateRoomId(c)
            /\ ~Has(rooms, c))
           => /\ OnlyError(outbox', last'.peer, "ROOM_NOT_FOUND")
              /\ rooms' = rooms
              /\ sockets' = sockets
              /\ stats' = stats]_vars

\* the rejected caller asked for a code that names no room while another exists
C7_Witness ==
    /\ last.op = "register_mobile"
    /\ OnlyError(outbox, last.peer, "ROOM_NOT_FOUND")
    /\ validateRoomId(CodeOf(last.arg))
    /\ ~Has(rooms, CodeOf(last.arg))
    /\ Len(rooms) > 0

\* ---- C8
\* C8 as stated: a custom_event from a peer that has an assigned room is sent
\* to the peer in the opposite slot of that room when that slot holds a
\* connected peer, and otherwise reaches nobody and the sender is sent the
\* error TARGET_DEVICE_NOT_CONNECTED.
C8_Original ==
    LET s == last.peer
        c == sockets[s].roomId
        room == IF Has(rooms, c) THEN Get(rooms, c) ELSE NoRoom
        target == IF sockets[s].deviceType = "mobile" THEN room.tv ELSE room.mobile
    IN  (last.op = "custom_event" /\ c # NoCode)
        => IF target # Null /\ sockets[target].connected
           THEN \E i \in Sent(outbox, target, "custom_event") : outbox[i].live
           ELSE OnlyError(outbox, s, "TARGET_DEVICE_NOT_CONNECTED")

\* ---- C9
NoDisplayFor(s) ==
    \/ ~Has(rooms, sockets[s].roomId)
    \/ Get(rooms, sockets[s].roomId).tv = Null
    \/ ~sockets[Get(rooms, sockets[s].roomId).tv].connected

\* C9: a typed message from a registered controller whose room no longer
\* exists, or whose room has an empty tv slot or a non-connected peer in it, is
\* dropped: the handler's only transport operation is the error NO_TV_IN_ROOM
\* to the sender; and nothing is kept for later, because a typed message is
\* only ever sent by the handler of a message of that kind, from that sender,
\* that found a connected display.
C9_NoDisplayDropsMessage ==
    /\ (/\ last.op \in TypedKinds
        /\ sockets[last.peer].deviceType = "mobile"
        /\ sockets[last.peer].roomId # NoCode
        /\ NoDisplayFor(last.peer))
       => OnlyError(outbox, last.peer, "NO_TV_IN_ROOM")
    /\ \A i \in 1..Len(outbox) :
          outbox[i].ev \in TypedKinds
          => /\ last.op = outbox[i].ev
             /\ last.peer = outbox[i].peer
             /\ ~NoDisplayFor(last.peer)
             /\ outbox[i].live

\* the controller's room holds a closed socket in its tv slot
C9_Witness ==
    /\ last.op \in TypedKinds /\ Valid(last.op, last.arg)
    /\ sockets[last.peer].deviceType = "mobile"
    /\ Has(rooms, sockets[last.peer].roomId)
    /\ Get(rooms, sockets[last.peer].roomId).tv # Null
    /\ NoDisplayFor(last.peer)
    /\ OnlyError(outbox, last.peer, "NO_TV_IN_ROOM")

\* the controller's room is gone from the room table
C9_WitnessRoomGone ==
    /\ last.op \in TypedKinds /\ Valid(last.op, last.arg)
    /\ sockets[last.peer].deviceType = "mobile"
    /\ sockets[last.peer].roomId # NoCode
    /\ ~Has(rooms, sockets[last.peer].roomId)
    /\ OnlyError(outbox, last.peer, "NO_TV_IN_ROOM")

\* ---- C10
Stale(p) ==
    sockets[p].connected /\ sockets[p].lastPong # -1
       /\ sockets[p].lastPong * TimeUnit > timeout

C10_Step(k, slot) ==
    LET c == rooms[k].roomId
        p == rooms[k][slot]
        other == IF slot = "tv" THEN "mobile" ELSE "tv"
        q == rooms[k][other]
        notice == IF slot = "tv" THEN "tv_disconnected" ELSE "mobile_disconnected"
    IN  (last'.op = "eviction_sweep" /\ p # Null /\ Stale(p))
        => /\ ~sockets'[p].connected
           /\ Sent(outbox', p, "force_disconnect") # {}
           /\ (Has(rooms', c) => Get(rooms', c)[slot] = Null)
           /\ (q # Null /\ q # p /\ sockets'[q].connected
               => \E i \in Sent(outbox', q, notice) : outbox'[i].peer = p)
           /\ ((\A r \in {p, q} \ {Null} : ~sockets'[r].connected) => ~Has(rooms', c))

\* C10 as stated: when the eviction sweep runs and a peer occupying a slot has
\* a lastPong older than the timeout, that peer is force-disconnected, its slot
\* is emptied, the counterpart that stays connected is sent the disconnect
\* notice naming it, and the room is gone if no live peer remains in it.
C10_Original ==
    [][\A k \in 1..Len(rooms) : \A slot \in {"tv", "mobile"} : C10_Step(k, slot)]_vars

\* ---- C11
\* a room of the table with no connected peer in either slot and older than
\* ROOM_TIMEOUT
EmptyExpired(k) ==
    /\ rooms[k].age * TimeUnit > ROOM_TIMEOUT
    /\ \A p \in {rooms[k].tv, rooms[k].mobile} \ {Null} : ~sockets[p].connected

\* C11: an expiry sweep removes from the room table every room that has no
\* connected peer in either slot and is older than ROOM_TIMEOUT, in a system
\* where the eviction sweep never runs; a code that is absent from the table
\* stays absent until a register_tv creates a room under it again.
C11_ExpirySweepRemovesEmptyRoom ==
    [][/\ last'.op = "expiry_sweep"
          => \A k \in 1..Len(rooms) : EmptyExpired(k) => ~Has(rooms', rooms[k].roomId)
       /\ \A k \in 1..Len(rooms') :
             ~Has(rooms, rooms'[k].roomId) => last'.op = "register_tv"]_vars

\* an expiry sweep has just removed a room
C11_Witness ==
    /\ last.op = "expiry_sweep"
    /\ last.arg[2] >= 1
    /\ \A k \in 1..Len(rooms) : ~EmptyExpired(k)

\* ---- C12
Other(slot) == IF slot = "tv" THEN "mobile" ELSE "tv"
DisconnectNotices(ob, to, p) ==
    {i \in 1..Len(ob) : /\ ob[i].to = to /\ ob[i].peer = p
                         /\ ob[i].ev \in {"tv_disconnected", "mobile_disconnected"}}

C12_Step(k, slot) ==
    LET c == rooms[k].roomId
        p == rooms[k][slot]
        q == rooms[k][Other(slot)]
    IN  (last'.op = "disconnect" /\ last'.peer = p)
        => /\ Has(rooms', c) => Get(rooms', c)[slot] = Null
           /\ (q # Null /\ q # p /\ sockets'[q].connected)
                 => Cardinality(DisconnectNotices(outbox', q, p)) = 1
           /\ Has(rooms', c) <=> \E r \in {p, q} \ {Null} : sockets'[r].connected

\* C12 as stated: when the peer in a slot of room c disconnects, that slot is
\* emptied, the connected peer of the other slot is sent exactly one
\* disconnect notice naming the departed peer, and room c stays in the room
\* table if and only if a connected peer remains in one of its slots.
C12_Original ==
    [][\A k \in 1..Len(rooms) : \A slot \in {"tv", "mobile"} : C12_Step(k, slot)]_vars

\* ---- C13
\* C13 as stated: handling the disconnect event of a peer a second time right
\* after the first leaves the room table, the counters and the messages sent
\* as they were after the first.
C13_Original ==
    [][last'.op = "disconnect_twice"
          => rooms' = rooms /\ stats' = stats /\ outbox' = outbox]_vars

\* ---- C14
\* C14: whenever a handler or sweep has finished, every room of the room
\* table has a peer in its tv slot or in its mobile slot.
C14_RoomHasOccupiedSlot ==
    \A k \in 1..Len(rooms) : rooms[k].tv # Null \/ rooms[k].mobile # Null

\* an eviction sweep closed a peer and left its room with one slot filled
C14_Witness ==
    /\ last.op = "eviction_sweep"
    /\ \E i \in 1..Len(outbox) : outbox[i].ev = "force_disconnect"
    /\ \E k \in 1..Len(rooms) : rooms[k].tv = Null /\ rooms[k].mobile # Null

\* a disconnect emptied one slot of a room whose other peer stays
C14_WitnessDisconnect ==
    /\ last.op = "disconnect"
    /\ \E k \in 1..Len(rooms) :
          /\ rooms[k].roomId = sockets[last.peer].roomId
          /\ rooms[k].mobile = Null /\ rooms[k].tv # Null

\* ---- C17
Confusable == {"0", "O", "1", "I"}

\* C17: every code returned by generateRoomId has between 4 and 6 characters
\* and none of them is 0, O, 1 or I.
C17_GeneratedCodeWellFormed ==
    last.op = "generateRoomId"
       => LET code == last.arg[2]
          IN  /\ Len(code) >= 4 /\ Len(code) <= 6
              /\ \A i \in 1..Len(code) : code[i] \notin Confusable

\* a code drawn from the stretch of the alphabet where I and O are left out
C17_Witness ==
    /\ last.op = "generateRoomId"
    /\ last.arg[2] = <<"J", "K", "L", "M", "N", "P">>

\* ---- C15
\* the code the caller was given in its 'registered' acknowledgment
AckCodes(ob, caller) == {ob[i].roomId : i \in Sent(ob, caller, "registered")}

\* C15 as stated: register_tv without a code ends with a room, keyed by the
\* code of the caller's 'registered' acknowledgment, whose tv slot holds the
\* caller and whose mobile slot is empty.
C15_Original ==
    [][(last'.op = "register_tv" /\ ~Truthy(last'.arg))
          => \E c \in AckCodes(outbox', last'.peer) :
                /\ Has(rooms', c)
                /\ Get(rooms', c).tv = last'.peer
                /\ Get(rooms', c).mobile = Null]_vars

\* ---- C16
\* C16 as stated: the code the server generates for a register_tv whose code
\* is absent or fails the format check is not the code of a room already in
\* the room table, and the registration sends nothing to any peer but the
\* caller.
C16_Original ==
    [][(last'.op = "register_tv" /\ ~validateRoomId(CodeOf(last'.arg)))
          => /\ \A c \in AckCodes(outbox', last'.peer) : ~Has(rooms, c)
             /\ \A i \in 1..Len(outbox') : outbox'[i].to = last'.peer]_vars

\* ---- C18
\* a supplied code of fewer than 4 characters
ShortCode(rid) == Truthy(rid) /\ Len(toString(rid)) < 4

\* C18: register_tv with a code shorter than 4 characters registers the
\* caller under a generated code, named in its 'registered' acknowledgment,
\* and no room is keyed by the supplied code before or after; register_mobile
\* with such a code is answered INVALID_ROOM_ID and changes no state.
C18_ShortCodeNeverUsed ==
    [][/\ (last'.op = "register_tv" /\ ShortCode(last'.arg))
          => /\ \E c \in AckCodes(outbox', last'.peer) :
                   /\ c \in {generateRoomId(d) : d \in CodeDraws}
                   /\ Has(rooms', c) /\ Get(rooms', c).tv = last'.peer
                   /\ sockets'[last'.peer].roomId = c
             /\ ~Has(rooms, toString(last'.arg))
             /\ ~Has(rooms', toString(last'.arg))
       /\ (last'.op = "register_mobile" /\ ShortCode(last'.arg))
          => /\ OnlyError(outbox', last'.peer, "INVALID_ROOM_ID")
             /\ rooms' = rooms /\ sockets' = sockets /\ stats' = stats]_vars

C18_Witness ==
    /\ last.op = "register_tv" /\ ShortCode(last.arg)
    /\ sockets[last.peer].roomId \in AckCodes(outbox, last.peer)
    /\ Len(sockets[last.peer].roomId) = 6

C18_WitnessMobile ==
    /\ last.op = "register_mobile" /\ ShortCode(last.arg)
    /\ OnlyError(outbox, last.peer, "INVALID_ROOM_ID")
    /\ Len(rooms) > 0

\* ---- C19
\* a controller paired with a connected display: its role is mobile and the
\* room of its code holds a connected peer in the tv slot
PairedController(p) ==
    /\ sockets[p].deviceType = "mobile"
    /\ sockets[p].roomId # NoCode
    /\ Has(rooms, sockets[p].roomId)
    /\ Get(rooms, sockets[p].roomId).tv # Null
    /\ sockets[Get(rooms, sockets[p].roomId).tv].connected

\* the handler answered the sender with one error and sent nothing else
RejectedWithError(ob, p) == Len(ob) = 1 /\ ob[1].to = p /\ ob[1].ev = "error"

\* C19 as stated: a presentation_action of a paired controller whose action
\* is not play, pause, stop, next, previous, fullscreen or exit-fullscreen is
\* answered with an error to the sender and is not delivered to the display.
C19_Original ==
    (/\ last.op = "presentation_action" /\ last.arg.obj
     /\ last.arg.f.action \notin ValidActions
     /\ PairedController(last.peer))
    => RejectedWithError(outbox, last.peer)

\* ---- C20
\* C20 as stated: a load_document of a paired controller whose documentType
\* is not pdf, powerpoint, image or video is answered with an error to the
\* sender and is not delivered to the display.
C20_Original ==
    (/\ last.op = "load_document" /\ last.arg.obj
     /\ last.arg.f.documentType \notin ValidTypes
     /\ PairedController(last.peer))
    => RejectedWithError(outbox, last.peer)

\* ---- C21
\* the message of the handler that just ran reached the display of the
\* sender's room once, with field f as sent
DeliveredOnce(f) ==
    /\ Cardinality(OfKind(outbox, last.op)) = 1
    /\ \A i \in OfKind(outbox, last.op) :
          /\ outbox[i].to = Get(rooms, sockets[last.peer].roomId).tv
          /\ outbox[i].live
          /\ outbox[i].data[f] = last.arg.f[f]

\* C21: from a paired controller, a slide_change whose slideIndex is a number
\* below 0 is answered INVALID_SLIDE_INDEX and a pdf_page_change whose
\* pageNumber is a number below 1 is answered INVALID_PAGE_NUMBER, neither
\* reaching the display; a slideIndex >= 0 and a pageNumber >= 1 are delivered
\* to the display.
C21_RangeChecked ==
    /\ (/\ last.op = "slide_change" /\ last.arg.obj /\ PairedController(last.peer)
        /\ typeof(last.arg.f.slideIndex) = "number")
       => IF last.arg.f.slideIndex[2] < 0
          THEN OnlyError(outbox, last.peer, "INVALID_SLIDE_INDEX")
          ELSE DeliveredOnce("slideIndex")
    /\ (/\ last.op = "pdf_page_change" /\ last.arg.obj /\ PairedController(last.peer)
        /\ typeof(last.arg.f.pageNumber) = "number")
       => IF last.arg.f.pageNumber[2] < 1
          THEN OnlyError(outbox, last.peer, "INVALID_PAGE_NUMBER")
          ELSE DeliveredOnce("pageNumber")

\* a negative slide index was turned away
C21_Witness ==
    /\ last.op = "slide_change" /\ last.arg.obj /\ PairedController(last.peer)
    /\ last.arg.f.slideIndex = Num(-1)
    /\ OnlyError(outbox, last.peer, "INVALID_SLIDE_INDEX")

\* page 0 was turned away
C21_WitnessPage ==
    /\ last.op = "pdf_page_change" /\ last.arg.obj /\ PairedController(last.peer)
    /\ last.arg.f.pageNumber = Num(0)
    /\ OnlyError(outbox, last.peer, "INVALID_PAGE_NUMBER")

\* slide 0 and page 1, the smallest values let through, reached the display
C21_WitnessDelivered ==
    \/ /\ last.op = "slide_change" /\ last.arg.obj /\ PairedController(last.peer)
       /\ last.arg.f.slideIndex = Num(0) /\ DeliveredOnce("slideIndex")
    \/ /\ last.op = "pdf_page_change" /\ last.arg.obj /\ PairedController(last.peer)
       /\ last.arg.f.pageNumber = Num(1) /\ DeliveredOnce("pageNumber")

\* the relay messages of the outbox that were put on a connection
Forwarded(ob) == {i \in 1..Len(ob) : ob[i].ev \in RelayKinds}

\* C22: in every forwarded message, typed or custom, 'from' is the sender's
\* connection id and 'timestamp' and 'roomId' are the server's values (the
\* server's clock, the sender's assigned room), whatever the sender wrote in
\* the fields from, timestamp, roomId and fromDevice of its payload; the
\* fromDevice that arrives is the sender's registered role (custom_event) or
\* absent (typed kinds).
C22_ServerStampsForwarded ==
    last.op \in RelayKinds =>
        \A i \in Forwarded(outbox) :
            /\ outbox[i].data.from = Num(last.peer)
            /\ outbox[i].data.timestamp = ServerTime
            /\ outbox[i].data.roomId = Str(sockets[last.peer].roomId)
            /\ outbox[i].data.fromDevice =
                   IF outbox[i].ev = "custom_event"
                   THEN Txt(sockets[last.peer].deviceType) ELSE Undef

\* a custom event whose payload claims another sender, time, room and role
\* is forwarded
C22_Witness ==
    /\ last.op = "custom_event" /\ last.arg.obj
    /\ last.arg.f.from = Txt("someone") /\ last.arg.f.roomId = Txt("other")
    /\ last.arg.f.timestamp = Txt("never") /\ last.arg.f.fromDevice = Txt("tv")
    /\ sockets[last.peer].deviceType = "mobile"
    /\ Forwarded(outbox) # {}

\* a slide change whose payload claims another sender is forwarded
C22_WitnessTyped ==
    /\ last.op = "slide_change" /\ last.arg.obj
    /\ last.arg.f.from = Txt("someone")
    /\ Forwarded(outbox) # {}

\* ---- C23
C23_Step(s) ==
    LET c == CodeOf(last'.arg)
    IN  (/\ last'.op = "register_tv" /\ last'.peer = s
         /\ Has(rooms, c) /\ Get(rooms, c).tv = s)
        => /\ \A i \in 1..Len(outbox') :
                 outbox'[i].ev \notin {"replaced", "force_disconnect"}
           /\ \A p \in Peers : sockets'[p].connected = sockets[p].connected
           /\ Has(rooms', c)
           /\ Get(rooms', c).tv = s
           /\ Get(rooms', c).mobile = Get(rooms, c).mobile
           /\ \E i \in Sent(outbox', s, "registered") :
                 outbox'[i].live /\ outbox'[i].roomId = c

\* C23: register_tv with code c by the peer that already occupies the tv slot
\* of room c is a refresh: nobody is sent 'replaced', no transport is closed,
\* both slots of room c hold the same peers as before, and the caller is sent
\* 'registered' with code c.
C23_SameDisplayRefresh == [][\A s \in Peers : C23_Step(s)]_vars

\* the display of a paired room has just registered again with its code
C23_Witness ==
    /\ last.op = "register_tv"
    /\ CodeOf(last.arg) = sockets[last.peer].roomId
    /\ Has(rooms, CodeOf(last.arg))
    /\ Get(rooms, CodeOf(last.arg)).tv = last.peer
    /\ Get(rooms, CodeOf(last.arg)).mobile \notin {Null, last.peer}
    /\ stats.tvConnections = 2
    /\ Sent(outbox, Get(rooms, CodeOf(last.arg)).mobile, "tv_connected") # {}

\* ---- C24
\* C24: a relay handler (slide_change, pdf_scroll, pdf_page_change,
\* presentation_action, load_document, custom_event), whether it forwards the
\* message or answers with an error, leaves the room table, every socket's
\* role, room code and connection state, and the counters as they were.
C24_RelayChangesNoState ==
    [][last'.op \in RelayKinds =>
          /\ rooms' = rooms
          /\ sockets' = sockets
          /\ stats' = stats]_vars

\* a relay message was forwarded in a paired room
C24_Witness ==
    /\ last.op \in RelayKinds
    /\ Forwarded(outbox) # {}
    /\ stats.activeRooms = 1 /\ stats.tvConnections = 1 /\ stats.mobileConnections = 1

\* a relay message was answered with an error by the catch block
C24_WitnessRejected ==
    /\ last.op \in RelayKinds
    /\ sockets[last.peer].roomId # NoCode
    /\ \E c \in {"SLIDE_CHANGE_ERROR", "CUSTOM_EVENT_ERROR"} : OnlyError(outbox, last.peer, c)

\* ---- C26
\* room k has a connected peer in one of its slots
Occupied(k) ==
    \E p \in {rooms[k].tv, rooms[k].mobile} \ {Null} : sockets[p].connected

\* C26: the expiry sweep never deletes a room in which at least one slot
\* holds a connected peer, whatever the room's age: such a room is in the
\* room table after the sweep, with the same slots.
C26_ExpirySweepKeepsOccupiedRoom ==
    [][last'.op = "expiry_sweep" =>
          \A k \in 1..Len(rooms) :
             Occupied(k) => /\ Has(rooms', rooms[k].roomId)
                            /\ Get(rooms', rooms[k].roomId) = rooms[k]]_vars

\* an expiry sweep has just removed an empty room and kept a room older than
\* ROOM_TIMEOUT whose only peer is a connected display
C26_Witness ==
    /\ last.op = "expiry_sweep"
    /\ last.arg[2] >= 1
    /\ \E k \in 1..Len(rooms) : /\ Occupied(k)
                                 /\ rooms[k].mobile = Null
                                 /\ rooms[k].age * TimeUnit > ROOM_TIMEOUT

\* ---- C28
\* the display T of room k, paired with controller M, disconnects
C28_DisplayLeaves(k) ==
    LET c == rooms[k].roomId
        T == rooms[k].tv
        M == rooms[k].mobile
    IN  (/\ last'.op = "disconnect" /\ last'.peer = T
         /\ T # Null /\ M # Null /\ M # T
         /\ sockets[T].connected /\ sockets[M].connected)
        => /\ Has(rooms', c)
           /\ Get(rooms', c).tv = Null
           /\ Get(rooms', c).mobile = M

\* a new peer N registers as display of a room holding only controller M
C28_DisplayReturns(N) ==
    LET c == CodeOf(last'.arg)
        M == Get(rooms, c).mobile
    IN  (/\ last'.op = "register_tv" /\ last'.peer = N
         /\ Has(rooms, c) /\ Get(rooms, c).tv = Null
         /\ M # Null /\ M # N /\ sockets[M].connected)
        => /\ Has(rooms', c)
           /\ Get(rooms', c).tv = N
           /\ Get(rooms', c).mobile = M
           /\ sockets'[M].connected
           /\ \E i \in Sent(outbox', M, "tv_connected") :
                 outbox'[i].peer = N /\ outbox'[i].live
           /\ \E i \in Sent(outbox', N, "mobile_connected") :
                 outbox'[i].peer = M /\ outbox'[i].live

\* C28 as stated: when the display of a paired room disconnects while the
\* controller stays connected, the room stays in the room table holding only
\* the controller; a later register_tv with the same code by a new peer puts
\* it in the tv slot and keeps the controller, the controller is sent
\* tv_connected naming the new display and the new display is sent
\* mobile_connected naming the controller.
C28_Original ==
    [][/\ \A k \in 1..Len(rooms) : C28_DisplayLeaves(k)
       /\ \A N \in Peers : C28_DisplayReturns(N)]_vars

\* ---- C29
\* the disconnect event of A arrives while the slot of A's role in A's room
\* is held by another peer B
C29_Step(A) ==
    LET c == sockets[A].roomId
        slot == sockets[A].deviceType
        B == Get(rooms, c)[slot]
    IN  (/\ last'.op = "disconnect_late" /\ last'.peer = A
         /\ slot \in {"tv", "mobile"} /\ Has(rooms, c)
         /\ B \notin {Null, A})
        => /\ Has(rooms', c)
           /\ Get(rooms', c)[slot] = B
           /\ \A i \in 1..Len(outbox') :
                 outbox'[i].ev \notin {"tv_disconnected", "mobile_disconnected"}

\* C29 as stated: a disconnect event for a peer whose slot is now held by the
\* peer that replaced it leaves that slot with the replacing peer, leaves the
\* room in the room table and sends no tv_disconnected or mobile_disconnected.
C29_Original == [][\A A \in Peers : C29_Step(A)]_vars

\* ---- C25
\* C25: in the single-pair server, each of the six relay events sent by a
\* socket that is not registered as mobile, or sent while the tv slot is
\* empty, is answered with the error UNAUTHORIZED_OR_NO_TV to the sender and
\* nothing else is sent: it is forwarded to nobody.
C25_UnauthorizedOrNoTv ==
    (/\ last.op \in RelayKinds
     /\ (sockets[last.peer].deviceType # "mobile" \/ clients.tv = Null))
    => OnlyError(outbox, last.peer, "UNAUTHORIZED_OR_NO_TV")

\* the registered TV itself sent a well-formed slide change
C25_Witness ==
    /\ last.op = "slide_change" /\ last.arg.obj
    /\ last.arg.f.slideIndex = Num(2)
    /\ clients.tv = last.peer /\ sockets[last.peer].deviceType = "tv"
    /\ OnlyError(outbox, last.peer, "UNAUTHORIZED_OR_NO_TV")

\* a registered mobile sent a custom event while no TV was registered
C25_WitnessNoTv ==
    /\ last.op = "custom_event"
    /\ clients.mobile = last.peer /\ sockets[last.peer].deviceType = "mobile"
    /\ clients.tv = Null
    /\ OnlyError(outbox, last.peer, "UNAUTHORIZED_OR_NO_TV")

\* ---- C30
\* the disconnect event of A arrives while the slot of A's role is held by
\* another socket B
C30_Step(A) ==
    LET slot == sockets[A].deviceType
        B == clients[slot]
    IN  (/\ last'.op \in {"disconnect", "disconnect_late"} /\ last'.peer = A
         /\ slot \in {"tv", "mobile"}
         /\ B \notin {Null, A})
        => /\ clients'[slot] = B
           /\ \A i \in 1..Len(outbox') :
                 outbox'[i].ev \notin {"tv_disconnected", "mobile_disconnected"}

\* C30 as stated: in the single-pair server a disconnect event, first or
\* second, for a socket that was replaced in the mobile or tv slot leaves the
\* slot with the replacing socket and sends no mobile_disconnected or
\* tv_disconnected.
C30_Original == [][\A A \in Peers : C30_Step(A)]_vars

\* ---- C27
\* C27 as stated: the periodic room cleanup of the v2.0.0 server deletes only
\* rooms that are older than ROOM_TIMEOUT and whose slots are both empty; a
\* room that still holds a TV or a mobile is never deleted by it.
C27_Original ==
    [][last'.op = "periodic_cleanup" =>
          \A k \in 1..Len(rooms) :
             ~Has(rooms', rooms[k].roomId) =>
                 /\ rooms[k].age * TimeUnit > ROOM_TIMEOUT
                 /\ rooms[k].tv = Null /\ rooms[k].mobile = Null]_vars

\* ---- C31
RoomCleanups(ob, to) == {i \in 1..Len(ob) : ob[i].to = to /\ ob[i].ev = "room_cleanup"}

\* the sweep removes the timed-out connected peer p of room k while the
\* counterpart q is connected and not timed out itself
C31_Sweep(k, slot) ==
    LET p == rooms[k][slot]
        q == rooms[k][Other(slot)]
    IN  (/\ last'.op = "eviction_sweep" /\ p # Null /\ Stale(p)
         /\ q # Null /\ q # p /\ sockets[q].connected /\ ~Stale(q))
        => /\ Cardinality(DisconnectNotices(outbox', q, p)) = 1
           /\ Cardinality(RoomCleanups(outbox', q)) <= 1

\* the disconnect event of an evicted peer handled after the sweep adds no
\* notice and no cleanup to what the sweep sent
C31_After ==
    last'.op = "disconnect_after_sweep" => outbox' = outbox

\* C31 as stated: when the eviction sweep removes a timed-out connected peer
\* whose counterpart is connected, the counterpart is sent exactly one
\* disconnect notice for that removal and the room is cleaned up at most once,
\* also when the transport's disconnect event for the same peer is handled
\* next to the sweep.
C31_Original ==
    [][/\ \A k \in 1..Len(rooms) : \A slot \in {"tv", "mobile"} : C31_Sweep(k, slot)
       /\ C31_After]_vars

\* ---- C32
\* p is connected and occupies a slot of some room
OccupiesConnected(p) == sockets[p].connected /\ HoldsSlot(rooms, p)

\* C32 as stated: with the sweeps firing again and again, a connected peer in
\* a slot that from some point on sends no pong is eventually closed and
\* taken out of its slot, also when it has never sent a pong.
C32_Original ==
    \A p \in FairPeers :
       \/ []<>(last.op = "pong" /\ last.peer = p)
       \/ (OccupiesConnected(p) ~> ~OccupiesConnected(p))

\* ---- C33
\* C33 as stated: a connected peer that answers every ping before the next
\* probe sweep is never sent connection_timeout and never taken out of its
\* slot by the eviction sweep.
C33_Original ==
    [][\A p \in Responsive :
          /\ Sent(outbox', p, "connection_timeout") = {}
          /\ (/\ last'.op \in {"probe_first_timers", "eviction_first_timers"}
              /\ sockets[p].connected)
             => \A k \in 1..Len(rooms) : \A slot \in {"tv", "mobile"} :
                   rooms[k][slot] = p
                   => /\ Has(rooms', rooms[k].roomId)
                      /\ Get(rooms', rooms[k].roomId)[slot] = p]_vars

\* ---- C34
\* the slots that hold p, over all rooms
SlotsOf(rs, p) == {<<k, slot>> \in (1..Len(rs)) \X {"tv", "mobile"} : rs[k][slot] = p}

\* C34 as stated: the probe sweep sends exactly one ping to every connected
\* peer that occupies a slot, nothing to a peer that occupies none, and
\* changes neither the room table nor any lastPong.
C34_Original ==
    [][last'.op = "probe_sweep"
       => /\ \A p \in Peers :
               /\ (sockets[p].connected /\ SlotsOf(rooms, p) # {})
                  => Cardinality(Sent(outbox', p, "ping")) = 1
               /\ SlotsOf(rooms, p) = {} => Sent(outbox', p, "ping") = {}
          /\ rooms' = rooms
          /\ \A p \in Peers : sockets'[p].lastPong = sockets[p].lastPong]_vars

\* ---- C35
\* C35 as stated: stats.tvConnections is the number of rooms whose tv slot
\* is occupied and stats.mobileConnections the number of rooms whose mobile
\* slot is occupied.
C35_Original ==
    /\ stats.tvConnections = Cardinality({k \in 1..Len(rooms) : rooms[k].tv # Null})
    /\ stats.mobileConnections = Cardinality({k \in 1..Len(rooms) : rooms[k].mobile # Null})

\* ---- C36
\* C36 as stated: a peer held in the tv slot of room c has role tv and
\* assigned room code c, a peer held in the mobile slot of room c has role
\* mobile and assigned room code c, and so no peer is held in two slots.
C36_Original ==
    /\ \A k \in 1..Len(rooms) : \A slot \in {"tv", "mobile"} :
          rooms[k][slot] # Null
          => /\ sockets[rooms[k][slot]].deviceType = slot
             /\ sockets[rooms[k][slot]].roomId = rooms[k].roomId
    /\ \A p \in Peers : Cardinality(SlotsOf(rooms, p)) <= 1

\* ---- C37
\* C37 as stated: a relayed message, typed or custom, is delivered only to a
\* peer whose assigned room code is the sender's and whose role is the
\* opposite of the sender's, and never to the sender itself.
C37_Original ==
    last.op \in RelayKinds =>
        \A i \in Forwarded(outbox) :
           /\ outbox[i].to # last.peer
           /\ sockets[outbox[i].to].roomId = sockets[last.peer].roomId
           /\ sockets[outbox[i].to].deviceType = Other(sockets[last.peer].deviceType)

\* ---- C38
\* the step is a registration that was accepted for room code c
RegisteredFor(c) ==
    /\ last'.op \in {"register_tv", "register_mobile"}
    /\ Sent(outbox', last'.peer, "registered") # {}
    /\ sockets'[last'.peer].roomId = c

\* C38 as stated: a registration for code c sends no 'replaced' to, does not
\* disconnect and does not empty the slot of a peer whose assigned room code
\* differs from c.
C38_Original ==
    [][\A p \in Peers : \A c \in {rooms'[k].roomId : k \in 1..Len(rooms')} :
          (RegisteredFor(c) /\ p # last'.peer /\ sockets[p].roomId # c)
          => /\ Sent(outbox', p, "replaced") = {}
             /\ Sent(outbox', p, "force_disconnect") = {}
             /\ sockets'[p].connected = sockets[p].connected
             /\ \A k \in 1..Len(rooms) : \A slot \in {"tv", "mobile"} :
                   rooms[k][slot] = p
                   => /\ Has(rooms', rooms[k].roomId)
                      /\ Get(rooms', rooms[k].roomId)[slot] = p]_vars

\* ---- C39
\* C39 as stated: when the step of an eviction or expiry sweep for one room
\* faults, the same run still evicts every stale peer and deletes every
\* expired empty room among the other rooms.
C39_Original ==
    [][/\ last'.op = "eviction_sweep_fault"
          => \A k \in (1..Len(rooms)) \ {last'.arg[2]} : \A slot \in {"tv", "mobile"} :
                (rooms[k][slot] # Null /\ Stale(rooms[k][slot]))
                => /\ Sent(outbox', rooms[k][slot], "connection_timeout") # {}
                   /\ Has(rooms', rooms[k].roomId)
                      => Get(rooms', rooms[k].roomId)[slot] = Null
       /\ last'.op = "expiry_sweep_fault"
          => \A k \in (1..Len(rooms)) \ {last'.arg[2]} :
                EmptyExpired(k) => ~Has(rooms', rooms[k].roomId)]_vars

====
